---- MODULE Spec2Model ----
(***************************************************************************)
(* Model of the metric transformation engine of mqtt2prometheus            *)
(* (package metrics: Parser.parseMetric and the per-metric state store).   *)
(* float64 values are modelled by integers, time by an integer clock whose *)
(* unit is half a minute.                                                  *)
(***************************************************************************)
EXTENDS Integers, Sequences, FiniteSets, TLC

\* ------------------------------------------------------------------ bounds
\* The clock never advances past MaxTime.
MaxTime == 3
\* Number of parseMetric calls in one behaviour of Spec.
MaxCalls == 3
\* Number of parseMetric calls in one behaviour of SpecTrace.
MaxTrace == 4
\* Number of rules in a block of the configuration files of SpecConfig.
MaxRules == 2
\* The count of the compilations of one expression stops here.
MaxCompiles == 2

\* ------------------------------------------------------- program constants
\* time.Minute, in clock units.
Minute == 2
\* time.Time{}: the zero time.
ZeroTime == 0
\* The duration now().Sub(time.Time{}) saturates to (maxDuration).
MaxDuration == 1000

\* ------------------------------------------------------------- raw values
\* An interface{} value: its dynamic type t and the payload of that type.
Nil == [t |-> "nil", n |-> 0, s |-> "", l |-> <<>>]
F(x) == [t |-> "float", n |-> x, s |-> "", l |-> <<>>]
I(x) == [t |-> "int", n |-> x, s |-> "", l |-> <<>>]
B(b) == [t |-> "bool", n |-> IF b THEN 1 ELSE 0, s |-> "", l |-> <<>>]
Str(x) == [t |-> "string", n |-> 0, s |-> x, l |-> <<>>]
List(x) == [t |-> "list", n |-> 0, s |-> "", l |-> x]

\* Op(x) with x evaluated once (Go evaluates a call's result once and then reads
\* it; a LET definition stands for its text at every use).
Bind(x, Op(_)) == CHOOSE y \in {Op(v) : v \in {x}} : TRUE

\* strconv.ParseFloat on the textual inputs of the model.
ParseFloat(s) ==
    CASE s = "2" -> [ok |-> TRUE, n |-> 2]
      [] s = "7" -> [ok |-> TRUE, n |-> 7]
      [] OTHER -> [ok |-> FALSE, n |-> 0]

\* toFloat64: numbers pass, text is parsed, anything else panics.
toFloat64(v) ==
    CASE v.t = "float" -> [ok |-> TRUE, n |-> v.n]
      [] v.t = "int" -> [ok |-> TRUE, n |-> v.n]
      [] v.t = "string" -> ParseFloat(v.s)
      [] OTHER -> [ok |-> FALSE, n |-> 0]

\* What yaml.Unmarshal into an interface{} gives back for yaml.Marshal(v):
\* a float64 without fraction is written as an integer literal and read as int.
YamlValue(v) ==
    CASE v.t = "float" -> I(v.n)
      [] OTHER -> v

\* ------------------------------------------------------------ state store
\* dynamicState{}: the zero value.
ZeroDynamic ==
    [Offset |-> 0, LastRawValue |-> 0, LastExprValue |-> 0,
     LastExprRawValue |-> Nil, LastExprResult |-> 0,
     LastExprResultString |-> "", LastExprTimestamp |-> ZeroTime]

NoProgram == "nil"
NoEnv == [set |-> FALSE, raw_value |-> Nil, value |-> 0, last_value |-> 0,
          last_raw_value |-> Nil, last_result |-> F(0), elapsed |-> 0]

\* &metricState{}
ZeroState ==
    [dynamic |-> ZeroDynamic, lastWritten |-> ZeroTime,
     program |-> NoProgram, env |-> NoEnv]

\* An identity without an entry in Parser.states.
NotCached == [cached |-> FALSE, st |-> ZeroState]
Cached(st) == [cached |-> TRUE, st |-> st]

\* The content of a state file.
Absent == [kind |-> "absent", dynamic |-> ZeroDynamic]
Unopenable == [kind |-> "unopenable", dynamic |-> ZeroDynamic]
Unreadable == [kind |-> "unreadable", dynamic |-> ZeroDynamic]
Corrupt == [kind |-> "corrupt", dynamic |-> ZeroDynamic]
Record(d) == [kind |-> "record", dynamic |-> d]
\* A file of length 0: what os.OpenFile with O_TRUNC leaves until f.Write.
Empty == [kind |-> "empty", dynamic |-> ZeroDynamic]
\* The files that os.OpenFile of writeMetricState opens in a writable directory.
Writable == {"absent", "empty", "record", "corrupt"}
\* The state directory p.stateDir: "writable"; "unwritable", where os.OpenFile
\* fails (the directory is missing or read-only); "full", where os.OpenFile
\* succeeds and f.Write fails (no space left, quota exceeded, I/O error).
StateDirs == {"writable", "unwritable", "full"}

\* yaml.Marshal(state.dynamic) followed by yaml.UnmarshalStrict.
Marshal(d) == [d EXCEPT !.LastExprRawValue = YamlValue(@)]

\* now().Sub(t)
Since(now, t) == IF t = ZeroTime THEN MaxDuration ELSE now - t

\* readMetricState with a slip: the content of the file is not taken over.
readMetricState_IgnoresFile(D, id, now) ==
    CASE D[id].kind = "absent" -> [state |-> ZeroState, err |-> ""]
      [] D[id].kind = "unopenable" -> [state |-> ZeroState, err |-> "panic"]
      [] D[id].kind = "unreadable" -> [state |-> ZeroState, err |-> "read"]
      [] D[id].kind = "corrupt" ->
            [state |-> [ZeroState EXCEPT !.lastWritten = now], err |-> "parse"]
      [] D[id].kind = "empty" ->
            [state |-> [ZeroState EXCEPT !.lastWritten = now], err |-> ""]
      [] OTHER ->
            [state |-> [ZeroState EXCEPT !.lastWritten = now], err |-> ""]

\* Parser.readMetricState: the state and the error it returns.
\* os.Open failing with anything but "not exist" reaches f.Name() with f = nil,
\* a nil pointer dereference: the goroutine panics. yaml.UnmarshalStrict of
\* no data leaves state.dynamic as it is and returns no error.
readMetricState(D, id, now) ==
    CASE D[id].kind = "absent" -> [state |-> ZeroState, err |-> ""]
      [] D[id].kind = "unopenable" -> [state |-> ZeroState, err |-> "panic"]
      [] D[id].kind = "unreadable" -> [state |-> ZeroState, err |-> "read"]
      [] D[id].kind = "corrupt" ->
            [state |-> [ZeroState EXCEPT !.lastWritten = now], err |-> "parse"]
      [] D[id].kind = "empty" ->
            [state |-> [ZeroState EXCEPT !.lastWritten = now], err |-> ""]
      [] OTHER ->
            [state |-> [ZeroState EXCEPT !.dynamic = D[id].dynamic,
                                         !.lastWritten = now],
             err |-> ""]

\* Parser.writeMetricState: create-or-truncate and write the marshalled state.
\* When os.OpenFile fails the file is as it was; when f.Write fails the file
\* stays truncated.
writeMetricState(D, id, st, stateDir) ==
    IF stateDir = "unwritable" \/ D[id].kind \notin Writable
    THEN [D |-> D, err |-> "write"]
    ELSE IF stateDir = "full"
    THEN [D |-> [D EXCEPT ![id] = Empty], err |-> "write"]
    ELSE [D |-> [D EXCEPT ![id] = Record(Marshal(st.dynamic))], err |-> ""]

\* flushMetricState with a slip: the state is written back on every access.
flushMetricState_NoThrottle(S, D, id, now, stateDir) ==
    LET st == S[id].st
        w == writeMetricState(D, id, st, stateDir)
    IN  IF w.err = ""
        THEN [S |-> [S EXCEPT ![id] = Cached([st EXCEPT !.lastWritten = now])],
              D |-> w.D, ok |-> TRUE, err |-> "", tried |-> TRUE, wrote |-> TRUE]
        ELSE [S |-> S, D |-> w.D, ok |-> TRUE, err |-> w.err,
              tried |-> TRUE, wrote |-> FALSE]

\* flushMetricState with a slip: a state marked dirty waits for the minute too.
flushMetricState_DirtyWaits(S, D, id, now, stateDir) ==
    LET st == S[id].st IN
    IF now - st.lastWritten >= Minute
    THEN LET w == writeMetricState(D, id, st, stateDir) IN
         IF w.err = ""
         THEN [S |-> [S EXCEPT ![id] = Cached([st EXCEPT !.lastWritten = now])],
               D |-> w.D, ok |-> TRUE, err |-> "", tried |-> TRUE, wrote |-> TRUE]
         ELSE [S |-> S, D |-> w.D, ok |-> TRUE, err |-> w.err,
               tried |-> TRUE, wrote |-> FALSE]
    ELSE [S |-> S, D |-> D, ok |-> TRUE, err |-> "",
          tried |-> FALSE, wrote |-> FALSE]

\* The write-back half of getMetricState, for a state that is in the cache.
\* tried says that writeMetricState was called, wrote that it succeeded.
flushMetricState(S, D, id, now, stateDir) ==
    LET st == S[id].st IN
    IF Since(now, st.lastWritten) >= Minute
    THEN LET w == writeMetricState(D, id, st, stateDir) IN
         IF w.err = ""
         THEN [S |-> [S EXCEPT ![id] = Cached([st EXCEPT !.lastWritten = now])],
               D |-> w.D, ok |-> TRUE, err |-> "", tried |-> TRUE, wrote |-> TRUE]
         ELSE [S |-> S, D |-> w.D, ok |-> TRUE, err |-> w.err,
               tried |-> TRUE, wrote |-> FALSE]
    ELSE [S |-> S, D |-> D, ok |-> TRUE, err |-> "",
          tried |-> FALSE, wrote |-> FALSE]

\* getMetricState with a slip: the cache is ignored, every access reads the file.
getMetricState_NoCache(S, D, id, now, stateDir) ==
    LET r == readMetricState(D, id, now) IN
    IF r.err # ""
    THEN [S |-> S, D |-> D, ok |-> FALSE, err |-> r.err,
          tried |-> FALSE, wrote |-> FALSE]
    ELSE flushMetricState([S EXCEPT ![id] = Cached(r.state)], D, id, now, stateDir)

\* Parser.getMetricState. ok says that a state was returned (not nil); err is the
\* returned error: a read error returns nil, a write error returns the state and
\* the error.
getMetricState(S, D, id, now, stateDir) ==
    IF S[id].cached
    THEN flushMetricState(S, D, id, now, stateDir)
    ELSE LET r == readMetricState(D, id, now) IN
         IF r.err # ""
         THEN [S |-> S, D |-> D, ok |-> FALSE, err |-> r.err,
               tried |-> FALSE, wrote |-> FALSE]
         ELSE flushMetricState([S EXCEPT ![id] = Cached(r.state)], D, id, now, stateDir)

\* enforceMonotonicy with a slip: an equal value counts as a reset.
enforceMonotonicy_NonStrict(S, D, id, value, now, stateDir) ==
    LET withState(g) ==
          IF g.err # ""
          THEN [S |-> g.S, D |-> g.D, out |-> value, err |-> g.err,
                tried |-> g.tried, wrote |-> g.wrote, dirty |-> FALSE]
          ELSE LET ms == g.S[id].st
                   reset == value <= ms.dynamic.LastRawValue
                   off == IF reset THEN ms.dynamic.Offset + ms.dynamic.LastRawValue
                          ELSE ms.dynamic.Offset
                   ms2 == [ms EXCEPT !.dynamic.Offset = off,
                                     !.dynamic.LastRawValue = value,
                                     !.lastWritten = IF reset THEN ZeroTime ELSE @]
               IN [S |-> [g.S EXCEPT ![id] = Cached(ms2)], D |-> g.D,
                   out |-> value + off, err |-> "",
                   tried |-> g.tried, wrote |-> g.wrote, dirty |-> reset]
    IN Bind(getMetricState(S, D, id, now, stateDir), withState)

\* enforceMonotonicy with a slip: a reset does not trigger the flush.
enforceMonotonicy_NoFlush(S, D, id, value, now, stateDir) ==
    LET withState(g) ==
          IF g.err # ""
          THEN [S |-> g.S, D |-> g.D, out |-> value, err |-> g.err,
                tried |-> g.tried, wrote |-> g.wrote, dirty |-> FALSE]
          ELSE LET ms == g.S[id].st
                   reset == value < ms.dynamic.LastRawValue
                   off == IF reset THEN ms.dynamic.Offset + ms.dynamic.LastRawValue
                          ELSE ms.dynamic.Offset
                   ms2 == [ms EXCEPT !.dynamic.Offset = off,
                                     !.dynamic.LastRawValue = value]
               IN [S |-> [g.S EXCEPT ![id] = Cached(ms2)], D |-> g.D,
                   out |-> value + off, err |-> "",
                   tried |-> g.tried, wrote |-> g.wrote, dirty |-> reset]
    IN Bind(getMetricState(S, D, id, now, stateDir), withState)

\* enforceMonotonicy with a slip: the state is updated although getMetricState
\* returned a write error.
enforceMonotonicy_UpdatesOnError(S, D, id, value, now, stateDir) ==
    LET withState(g) ==
          IF g.err # "" /\ ~g.ok
          THEN [S |-> g.S, D |-> g.D, out |-> value, err |-> g.err,
                tried |-> g.tried, wrote |-> g.wrote, dirty |-> FALSE]
          ELSE LET ms == g.S[id].st
                   reset == value < ms.dynamic.LastRawValue
                   off == IF reset THEN ms.dynamic.Offset + ms.dynamic.LastRawValue
                          ELSE ms.dynamic.Offset
                   ms2 == [ms EXCEPT !.dynamic.Offset = off,
                                     !.dynamic.LastRawValue = value,
                                     !.lastWritten = IF reset THEN ZeroTime ELSE @]
               IN [S |-> [g.S EXCEPT ![id] = Cached(ms2)], D |-> g.D,
                   out |-> IF g.err = "" THEN value + off ELSE value,
                   err |-> g.err,
                   tried |-> g.tried, wrote |-> g.wrote,
                   dirty |-> g.err = "" /\ reset]
    IN Bind(getMetricState(S, D, id, now, stateDir), withState)

\* Parser.enforceMonotonicy.
enforceMonotonicy(S, D, id, value, now, stateDir) ==
    LET withState(g) ==
          IF g.err # ""
          THEN [S |-> g.S, D |-> g.D, out |-> value, err |-> g.err,
                tried |-> g.tried, wrote |-> g.wrote, dirty |-> FALSE]
          ELSE LET ms == g.S[id].st
                   reset == value < ms.dynamic.LastRawValue
                   off == IF reset THEN ms.dynamic.Offset + ms.dynamic.LastRawValue
                          ELSE ms.dynamic.Offset
                   ms2 == [ms EXCEPT !.dynamic.Offset = off,
                                     !.dynamic.LastRawValue = value,
                                     !.lastWritten = IF reset THEN ZeroTime ELSE @]
               IN [S |-> [g.S EXCEPT ![id] = Cached(ms2)], D |-> g.D,
                   out |-> value + off, err |-> "",
                   tried |-> g.tried, wrote |-> g.wrote, dirty |-> reset]
    IN Bind(getMetricState(S, D, id, now, stateDir), withState)

\* ------------------------------------------------------------ expressions
\* The expression sources of the model.
ERawHead == "float(raw_value[0])"
EValuePlusLast == "value + last_result"
EFloatRaw == "float(raw_value)"
EBad == "value +"
LHiLo == "value > 1 ? 'hi' : 'lo'"
LRawHiLo == "float(raw_value) > 1 ? 'hi' : 'lo'"

\* defaultExprEnv(): the variables of the environment (last_raw_value is not in
\* the default environment; it reads as nil until it is assigned).
defaultExprEnv ==
    [set |-> TRUE, raw_value |-> Nil, value |-> 0, last_value |-> 0,
     last_raw_value |-> Nil, last_result |-> F(0), elapsed |-> 0]

\* The environment that evalExpressionValue and evalExpressionLabel fill in from
\* the call's inputs and the state's last evaluation.
updatedEnv(raw, value, dyn, lastResult, now) ==
    [set |-> TRUE, raw_value |-> raw, value |-> value,
     last_value |-> dyn.LastExprValue,
     last_raw_value |-> dyn.LastExprRawValue,
     last_result |-> lastResult,
     elapsed |-> IF dyn.LastExprTimestamp = ZeroTime THEN 0
                 ELSE now - dyn.LastExprTimestamp]

\* expr.Compile(code, expr.Env(env)): the source must be well formed and must
\* type-check against the types of the values the environment holds (indexing
\* needs a list; nil is of unknown type and passes).
Compile(code, env) ==
    CASE code = EBad -> FALSE
      [] code = ERawHead -> env.raw_value.t \in {"list", "nil"}
      [] OTHER -> TRUE

\* expr.Run of a value expression (expr.AsFloat64): the float64 result or an error.
RunValue(code, env) ==
    CASE code = ERawHead ->
            IF env.raw_value.t = "list" /\ Len(env.raw_value.l) > 0
            THEN [ok |-> TRUE, n |-> env.raw_value.l[1]]
            ELSE [ok |-> FALSE, n |-> 0]
      [] code = EValuePlusLast ->
            IF env.last_result.t = "float"
            THEN [ok |-> TRUE, n |-> env.value + env.last_result.n]
            ELSE [ok |-> FALSE, n |-> 0]
      [] code = EFloatRaw -> toFloat64(env.raw_value)
      [] OTHER -> [ok |-> FALSE, n |-> 0]

\* expr.Run of a label expression followed by fmt.Sprint: the text or an error.
RunLabel(code, env) ==
    CASE code = LHiLo ->
            [ok |-> TRUE, s |-> IF env.value > 1 THEN "hi" ELSE "lo"]
      [] code = LRawHiLo ->
            LET f == toFloat64(env.raw_value) IN
            [ok |-> f.ok, s |-> IF f.ok /\ f.n > 1 THEN "hi" ELSE "lo"]
      [] OTHER -> [ok |-> FALSE, s |-> ""]

\* Parser.evalExpressionValue. ran says that expr.Run was reached, env is the
\* environment it ran in.
evalExpressionValue(S, D, id, code, raw, value, now, stateDir) ==
    LET \* lines 414-427, on the state ms1 left by the compile step
        run(g, ms1) ==
          LET r == RunValue(ms1.program, ms1.env)
              ms2 == [ms1 EXCEPT !.dynamic.LastExprResult = r.n,
                                 !.dynamic.LastExprRawValue = raw,
                                 !.dynamic.LastExprValue = value,
                                 !.dynamic.LastExprTimestamp = now]
          IN  IF ~r.ok
              THEN [S |-> [g.S EXCEPT ![id] = Cached(ms1)], D |-> g.D,
                    out |-> value, err |-> "run", ran |-> TRUE,
                    compiled |-> g.S[id].st.program = NoProgram, env |-> ms1.env,
                    tried |-> g.tried, wrote |-> g.wrote,
                    dirty |-> ms1.lastWritten = ZeroTime]
              ELSE [S |-> [g.S EXCEPT ![id] = Cached(ms2)], D |-> g.D,
                    out |-> r.n, err |-> "", ran |-> TRUE,
                    compiled |-> g.S[id].st.program = NoProgram, env |-> ms1.env,
                    tried |-> g.tried, wrote |-> g.wrote,
                    dirty |-> ms1.lastWritten = ZeroTime]
        \* lines 393-412: the environment is filled in only when there is no
        \* program yet
        compile(g, ms) ==
          IF ms.program # NoProgram
          THEN run(g, ms)
          ELSE LET env1 == updatedEnv(raw, value, ms.dynamic,
                                      F(ms.dynamic.LastExprResult), now)
               IN  IF ~Compile(code, env1)
                   THEN [S |-> [g.S EXCEPT ![id] = Cached([ms EXCEPT !.env = env1])],
                         D |-> g.D, out |-> value, err |-> "compile",
                         ran |-> FALSE, compiled |-> FALSE, env |-> NoEnv,
                         tried |-> g.tried, wrote |-> g.wrote, dirty |-> FALSE]
                   ELSE Bind([ms EXCEPT !.env = env1, !.program = code,
                                        !.lastWritten = ZeroTime],
                             LAMBDA ms1 : run(g, ms1))
        withState(g) ==
          IF g.err # ""
          THEN [S |-> g.S, D |-> g.D, out |-> value, err |-> g.err,
                ran |-> FALSE, compiled |-> FALSE, env |-> NoEnv,
                tried |-> g.tried, wrote |-> g.wrote, dirty |-> FALSE]
          ELSE compile(g, g.S[id].st)
    IN Bind(getMetricState(S, D, id, now, stateDir), withState)

\* labelID with a slip: the label shares the state of its rule.
labelID_Shared(label, id) == id

\* The identity of the state of a dynamic label: label + "@" + metricID.
labelID(label, id) == label \o "@" \o id

\* Parser.evalExpressionLabel.
evalExpressionLabel(S, D, id, label, code, raw, value, now, stateDir) ==
    LET lid == labelID(label, id)
        \* lines 447-472, on the state ms1 left by the compile step
        run(g, ms1) ==
          LET env2 == updatedEnv(raw, value, ms1.dynamic,
                                 Str(ms1.dynamic.LastExprResultString), now)
              ms2 == [ms1 EXCEPT !.env = env2]
              r == RunLabel(ms1.program, env2)
              ms3 == [ms2 EXCEPT !.dynamic.LastExprResultString = r.s,
                                 !.dynamic.LastExprValue = value,
                                 !.dynamic.LastExprTimestamp = now]
          IN  IF ~r.ok
              THEN [S |-> [g.S EXCEPT ![lid] = Cached(ms2)], D |-> g.D,
                    out |-> "", err |-> "run", ran |-> TRUE,
                    compiled |-> g.S[lid].st.program = NoProgram, env |-> env2,
                    tried |-> g.tried, wrote |-> g.wrote,
                    dirty |-> ms1.lastWritten = ZeroTime]
              ELSE [S |-> [g.S EXCEPT ![lid] = Cached(ms3)], D |-> g.D,
                    out |-> r.s, err |-> "", ran |-> TRUE,
                    compiled |-> g.S[lid].st.program = NoProgram, env |-> env2,
                    tried |-> g.tried, wrote |-> g.wrote,
                    dirty |-> ms1.lastWritten = ZeroTime]
        \* lines 437-445
        compile(g, ms) ==
          IF ms.program # NoProgram
          THEN run(g, ms)
          ELSE IF ~Compile(code, defaultExprEnv)
          THEN [S |-> [g.S EXCEPT ![lid] =
                          Cached([ms EXCEPT !.env = defaultExprEnv])],
                D |-> g.D, out |-> "", err |-> "compile",
                ran |-> FALSE, compiled |-> FALSE, env |-> NoEnv,
                tried |-> g.tried, wrote |-> g.wrote, dirty |-> FALSE]
          ELSE Bind([ms EXCEPT !.env = defaultExprEnv, !.program = code,
                               !.lastWritten = ZeroTime],
                    LAMBDA ms1 : run(g, ms1))
        withState(g) ==
          IF g.err # ""
          THEN [S |-> g.S, D |-> g.D, out |-> "", err |-> g.err,
                ran |-> FALSE, compiled |-> FALSE, env |-> NoEnv,
                tried |-> g.tried, wrote |-> g.wrote, dirty |-> FALSE]
          ELSE compile(g, g.S[lid].st)
    IN Bind(getMetricState(S, D, lid, now, stateDir), withState)

\* --------------------------------------------------------------- pipeline
\* A *float64 of the configuration: nil or a value.
NoFloat == [set |-> FALSE, v |-> 0]
SomeFloat(x) == [set |-> TRUE, v |-> x]
\* A *StringValueMappingConfig: nil or a map (a set of key/value pairs) with its
\* deprecated error value.
NoMapping == [set |-> FALSE, Map |-> {}, ErrorValue |-> NoFloat]
Mapping(m, e) == [set |-> TRUE, Map |-> m, ErrorValue |-> e]

\* What one call of evalExpressionValue or enforceMonotonicy inside parseMetric
\* was given and returned.
\* r is the record of what the call returned and did: tried and wrote say that
\* getMetricState called writeMetricState and that the write succeeded, dirty
\* that the call left the state marked dirty (lastWritten = time.Time{}); file
\* is the state file after the call; compiled says that the call compiled the
\* expression (expr.Compile succeeded in it).
NoStep == [called |-> FALSE, in |-> 0, out |-> 0, err |-> "",
           ran |-> FALSE, compiled |-> FALSE, env |-> NoEnv,
           tried |-> FALSE, wrote |-> FALSE, dirty |-> FALSE, file |-> Absent]
Step(in, r, ran, compiled, env, id) ==
    [called |-> TRUE, in |-> in, out |-> r.out, err |-> r.err, ran |-> ran,
     compiled |-> compiled, env |-> env, tried |-> r.tried, wrote |-> r.wrote, dirty |-> r.dirty,
     file |-> r.D[id]]

\* What one call of evalExpressionLabel inside parseMetric was given and
\* returned, with the cache and the files before and after it.
LabelStep(k, in, r, id, S, D) ==
    [k |-> k, in |-> in, out |-> r.out, err |-> r.err, ran |-> r.ran,
     compiled |-> r.compiled, env |-> r.env, tried |-> r.tried, wrote |-> r.wrote, dirty |-> r.dirty,
     file |-> r.D[id], preS |-> S, preD |-> D, postS |-> r.S, postD |-> r.D]

\* The type resolution of parseMetric without a raw expression (lines 199-245).
resolveType(cfg, raw) ==
    CASE raw.t = "bool" -> [ok |-> TRUE, n |-> raw.n]
      [] raw.t = "string" ->
            IF cfg.StringValueMapping.set
            THEN IF \E e \in cfg.StringValueMapping.Map : e.k = raw.s
                 THEN [ok |-> TRUE,
                       n |-> (CHOOSE e \in cfg.StringValueMapping.Map : e.k = raw.s).v]
                 ELSE IF cfg.StringValueMapping.ErrorValue.set
                 THEN [ok |-> TRUE, n |-> cfg.StringValueMapping.ErrorValue.v]
                 ELSE IF cfg.ErrorValue.set
                 THEN [ok |-> TRUE, n |-> cfg.ErrorValue.v]
                 ELSE [ok |-> FALSE, n |-> 0]
            ELSE LET f == ParseFloat(raw.s) IN
                 IF f.ok THEN f
                 ELSE IF cfg.ErrorValue.set
                 THEN [ok |-> TRUE, n |-> cfg.ErrorValue.v]
                 ELSE [ok |-> FALSE, n |-> 0]
      [] raw.t = "float" -> [ok |-> TRUE, n |-> raw.n]
      [] OTHER ->
            IF cfg.ErrorValue.set
            THEN [ok |-> TRUE, n |-> cfg.ErrorValue.v]
            ELSE [ok |-> FALSE, n |-> 0]

\* The value derivation of parseMetric (lines 189-256): the working value after
\* the raw expression, or after type resolution and the expression.
\* outcome is "ok", "err" (parseMetric returns the error) or "panic".
deriveValue(S, D, cfg, id, raw, now, stateDir) ==
    LET code == IF cfg.RawExpression # "" THEN cfg.RawExpression ELSE cfg.Expression
        t == IF cfg.RawExpression # "" THEN [ok |-> TRUE, n |-> 0]
             ELSE resolveType(cfg, raw)
    IN
    IF ~t.ok
    THEN [S |-> S, D |-> D, outcome |-> "err", err |-> "type", value |-> 0,
          typed |-> 0, expr |-> NoStep]
    ELSE IF code = ""
    THEN [S |-> S, D |-> D, outcome |-> "ok", err |-> "", value |-> t.n,
          typed |-> t.n, expr |-> NoStep]
    ELSE
    LET evaluated(e) ==
          LET step == Step(t.n, e, e.ran, e.compiled, e.env, id) IN
          IF e.err = ""
          THEN [S |-> e.S, D |-> e.D, outcome |-> "ok", err |-> "",
                value |-> e.out, typed |-> t.n, expr |-> step]
          ELSE IF e.err = "panic"
          THEN [S |-> e.S, D |-> e.D, outcome |-> "panic", err |-> e.err,
                value |-> 0, typed |-> t.n, expr |-> step]
          ELSE IF cfg.ErrorValue.set
          THEN [S |-> e.S, D |-> e.D, outcome |-> "ok", err |-> "",
                value |-> cfg.ErrorValue.v, typed |-> t.n, expr |-> step]
          ELSE [S |-> e.S, D |-> e.D, outcome |-> "err", err |-> e.err,
                value |-> 0, typed |-> t.n, expr |-> step]
    IN Bind(evalExpressionValue(S, D, id, code, raw, t.n, now, stateDir), evaluated)

\* The monotonicity step with a slip: the value is scaled before the correction.
monotonicStep_AfterScale(S, D, cfg, id, value, now, stateDir) ==
    IF ~cfg.ForceMonotonicy
    THEN [S |-> S, D |-> D, outcome |-> "ok", err |-> "", value |-> value,
          mono |-> NoStep]
    ELSE
    LET scaled == IF cfg.MQTTValueScale # 0 THEN value * cfg.MQTTValueScale
                  ELSE value
        enforced(m) ==
          LET step == Step(scaled, m, FALSE, FALSE, NoEnv, id) IN
          IF m.err = ""
          THEN [S |-> m.S, D |-> m.D, outcome |-> "ok", err |-> "",
                value |-> m.out, mono |-> step]
          ELSE IF m.err = "panic"
          THEN [S |-> m.S, D |-> m.D, outcome |-> "panic", err |-> m.err,
                value |-> 0, mono |-> step]
          ELSE IF cfg.ErrorValue.set
          THEN [S |-> m.S, D |-> m.D, outcome |-> "ok", err |-> "",
                value |-> cfg.ErrorValue.v, mono |-> step]
          ELSE [S |-> m.S, D |-> m.D, outcome |-> "err", err |-> m.err,
                value |-> 0, mono |-> step]
    IN Bind(enforceMonotonicy(S, D, id, scaled, now, stateDir), enforced)

\* The monotonicity step of parseMetric (lines 258-266).
monotonicStep(S, D, cfg, id, value, now, stateDir) ==
    IF ~cfg.ForceMonotonicy
    THEN [S |-> S, D |-> D, outcome |-> "ok", err |-> "", value |-> value,
          mono |-> NoStep]
    ELSE
    LET enforced(m) ==
          LET step == Step(value, m, FALSE, FALSE, NoEnv, id) IN
          IF m.err = ""
          THEN [S |-> m.S, D |-> m.D, outcome |-> "ok", err |-> "",
                value |-> m.out, mono |-> step]
          ELSE IF m.err = "panic"
          THEN [S |-> m.S, D |-> m.D, outcome |-> "panic", err |-> m.err,
                value |-> 0, mono |-> step]
          ELSE IF cfg.ErrorValue.set
          THEN [S |-> m.S, D |-> m.D, outcome |-> "ok", err |-> "",
                value |-> cfg.ErrorValue.v, mono |-> step]
          ELSE [S |-> m.S, D |-> m.D, outcome |-> "err", err |-> m.err,
                value |-> 0, mono |-> step]
    IN Bind(enforceMonotonicy(S, D, id, value, now, stateDir), enforced)

\* The scale step of parseMetric (lines 268-270).
scaleStep(cfg, value) ==
    IF cfg.MQTTValueScale # 0 THEN value * cfg.MQTTValueScale ELSE value

\* The dynamic label loop of parseMetric (lines 279-288) over the labels in the
\* order the map iteration yields them: it stops at the first error.
\* steps are the calls of evalExpressionLabel made so far.
RECURSIVE labelLoop(_, _, _, _, _, _, _, _, _, _)
labelLoop(S, D, id, order, raw, value, now, stateDir, acc, steps) ==
    IF order = <<>>
    THEN [S |-> S, D |-> D, outcome |-> "ok", err |-> "", Labels |-> acc,
          steps |-> steps]
    ELSE
    LET kv == Head(order)
        evaluated(e) ==
          LET step == LabelStep(kv.k, value, e, labelID(kv.k, id), S, D) IN
          IF e.err = "panic"
          THEN [S |-> e.S, D |-> e.D, outcome |-> "panic", err |-> e.err,
                Labels |-> {}, steps |-> Append(steps, step)]
          ELSE IF e.err # ""
          THEN [S |-> e.S, D |-> e.D, outcome |-> "err", err |-> e.err,
                Labels |-> {}, steps |-> Append(steps, step)]
          ELSE labelLoop(e.S, e.D, id, Tail(order), raw, value, now, stateDir,
                         acc \cup {[k |-> kv.k, v |-> e.out]},
                         Append(steps, step))
    IN Bind(evalExpressionLabel(S, D, id, kv.k, kv.v, raw, value, now, stateDir),
            evaluated)

\* Metric{}: what parseMetric returns beside an error.
NoMetric == [Value |-> 0, IngestTime |-> ZeroTime, Labels |-> {}]

\* The order of the strings of the label names (by their bytes).
Byte == ("a" :> 97) @@ ("b" :> 98)
StringLess(x, y) == Byte[x] < Byte[y]

\* sort.Strings with a slip: the slice is left as it is.
SortStrings_Unsorted(keys) == keys

\* sort.Strings: the strings of the slice in ascending order.
RECURSIVE SortStrings(_)
SortStrings(keys) ==
    IF keys = <<>> THEN <<>>
    ELSE LET rest == SortStrings(Tail(keys))
             below == SelectSeq(rest, LAMBDA k : StringLess(k, Head(keys)))
             above == SelectSeq(rest, LAMBDA k : ~StringLess(k, Head(keys)))
         IN  below \o <<Head(keys)>> \o above

\* MetricConfig.DynamicLabelsKeys: the keys of the map, appended in the order
\* iter in which the iteration over the map yields the labels, then sorted.
DynamicLabelsKeys(mc, iter) ==
    SortStrings([i \in 1..Len(iter) |-> iter[i].k])

\* MetricConfig.PrometheusDescription, as far as its variable labels go.
PrometheusDescription(mc, iter) ==
    <<"sensor", "topic">> \o DynamicLabelsKeys(mc, iter)

\* Parser.parseMetric. order is the order in which the iteration over
\* cfg.DynamicLabels yields the labels. The Description and LabelsKeys of the
\* returned Metric depend on the rule alone: Returned adds them.
parseMetric(S, D, cfg, id, raw, now, stateDir, order) ==
    LET labelled(v, m, value, l) ==
          IF l.outcome # "ok"
          THEN [S |-> l.S, D |-> l.D, outcome |-> l.outcome, err |-> l.err,
                metric |-> NoMetric, typed |-> v.typed, expr |-> v.expr,
                mono |-> m.mono, labels |-> l.steps,
                valueS |-> m.S, valueD |-> m.D]
          ELSE [S |-> l.S, D |-> l.D, outcome |-> "ok", err |-> "",
                metric |-> [Value |-> value,
                            IngestTime |-> IF cfg.OmitTimestamp THEN ZeroTime
                                           ELSE now,
                            Labels |-> l.Labels],
                typed |-> v.typed, expr |-> v.expr, mono |-> m.mono,
                labels |-> l.steps, valueS |-> m.S, valueD |-> m.D]
        scaled(v, m, value) ==
          Bind(labelLoop(m.S, m.D, id, order, raw, value, now, stateDir, {}, <<>>),
               LAMBDA l : labelled(v, m, value, l))
        enforced(v, m) ==
          IF m.outcome # "ok"
          THEN [S |-> m.S, D |-> m.D, outcome |-> m.outcome, err |-> m.err,
                metric |-> NoMetric, typed |-> v.typed, expr |-> v.expr,
                mono |-> m.mono, labels |-> <<>>,
                valueS |-> m.S, valueD |-> m.D]
          ELSE Bind(scaleStep(cfg, m.value), LAMBDA value : scaled(v, m, value))
        derived(v) ==
          IF v.outcome # "ok"
          THEN [S |-> v.S, D |-> v.D, outcome |-> v.outcome, err |-> v.err,
                metric |-> NoMetric, typed |-> v.typed, expr |-> v.expr,
                mono |-> NoStep, labels |-> <<>>,
                valueS |-> v.S, valueD |-> v.D]
          ELSE Bind(monotonicStep(v.S, v.D, cfg, id, v.value, now, stateDir),
                    LAMBDA m : enforced(v, m))
    IN Bind(deriveValue(S, D, cfg, id, raw, now, stateDir), derived)

\* ------------------------------------------------------------------ rules
\* A config.MetricConfig, as far as parseMetric reads it. DynamicLabels is the
\* map as a set of key/value pairs.
Rule(raw, ex, ev, mono, scale, labels) ==
    [RawExpression |-> raw, Expression |-> ex, ErrorValue |-> ev,
     ForceMonotonicy |-> mono, MQTTValueScale |-> scale, OmitTimestamp |-> FALSE,
     DynamicLabels |-> labels, StringValueMapping |-> NoMapping]

LabelsAB == {[k |-> "a", v |-> LRawHiLo], [k |-> "b", v |-> LHiLo]}

\* A rule that configures nothing, and rules with a string_value_mapping.
PlainRule == Rule("", "", NoFloat, FALSE, 0, {})
StateMap == {[k |-> "STOPPED", v |-> 0], [k |-> "RUNNING", v |-> 1]}
MappedRule(ev, mapEv) ==
    [Rule("", "", ev, FALSE, 0, {}) EXCEPT !.StringValueMapping = Mapping(StateMap, mapEv)]

\* The rules of the model, each with the raw inputs it is fed.
Scenarios ==
    { [cfg |-> Rule("", "", NoFloat, TRUE, 0, {}),
       inputs |-> {F(0 - 1), F(1), F(2)}],
      [cfg |-> Rule("", "", SomeFloat(5), TRUE, 2, {}),
       inputs |-> {F(1), F(2), I(3)}],
      [cfg |-> Rule(ERawHead, "", NoFloat, FALSE, 0, {}),
       inputs |-> {List(<<1, 2, 3>>), List(<<5, 6, 7>>)}],
      [cfg |-> Rule(EFloatRaw, "", SomeFloat(5), FALSE, 0, {}),
       inputs |-> {F(1), Str("2"), Str("x")}],
      [cfg |-> Rule("", EValuePlusLast, NoFloat, TRUE, 0, {}),
       inputs |-> {F(1), F(2)}],
      [cfg |-> Rule("", EBad, SomeFloat(5), FALSE, 2, {}),
       inputs |-> {F(1), Str("x")}],
      [cfg |-> Rule(EBad, "", NoFloat, FALSE, 0, {}),
       inputs |-> {F(1)}],
      [cfg |-> Rule("", "", SomeFloat(5), TRUE, 0, LabelsAB),
       inputs |-> {F(2), Str("x")}],
      [cfg |-> PlainRule,
       inputs |-> {B(TRUE), B(FALSE), F(2), I(3), Str("7"), Str("x"), Nil}],
      [cfg |-> MappedRule(NoFloat, NoFloat),
       inputs |-> {Str("RUNNING"), Str("STOPPED"), Str("UNKNOWN"), B(TRUE)}],
      [cfg |-> MappedRule(SomeFloat(0 - 1), NoFloat),
       inputs |-> {Str("RUNNING"), Str("UNKNOWN"), Nil}],
      [cfg |-> MappedRule(NoFloat, SomeFloat(7)),
       inputs |-> {Str("STOPPED"), Str("UNKNOWN")}] }

\* The rule of SpecTrace: force_monotonicy alone.
MonotonicRule == Rule("", "", NoFloat, TRUE, 0, {})
TraceInputs == {F(10), F(15), F(20), F(25)}

\* The metric identity of the rule and the identities of its label states.
MetricID == "m"
IDs == {MetricID} \cup {labelID(l, MetricID) : l \in {"a", "b"}}

\* A state file left by an earlier process.
StoredDynamic ==
    [ZeroDynamic EXCEPT !.Offset = 3, !.LastRawValue = 2, !.LastExprValue = 2,
                        !.LastExprRawValue = I(2), !.LastExprResult = 4,
                        !.LastExprTimestamp = 1]
InitialFiles == {Absent, Record(StoredDynamic), Corrupt, Unopenable, Unreadable}

\* All orders in which the iteration over a map of labels can yield its entries.
Orders(labels) ==
    {o \in [1..Cardinality(labels) -> labels] :
        \A i, j \in 1..Cardinality(labels) : i # j => o[i] # o[j]}

\* What the two calls of DynamicLabelsKeys in parseMetric (for the description
\* and for LabelsKeys, lines 291 and 296) can return for the rule mc: each over
\* every order in which the iteration over the map can yield the labels.
Descriptions(mc) ==
    [desc : {PrometheusDescription(mc, o) : o \in Orders(mc.DynamicLabels)},
     keys : {DynamicLabelsKeys(mc, o) : o \in Orders(mc.DynamicLabels)}]

\* ---------------------------------------------------------- configuration
\* A config.Regexp: unset (Regexp{} with r = nil, or a nil *Regexp) or a compiled
\* pattern. The patterns of the model are a literal lit, optionally anchored at
\* the start (^) and at the end ($); device identities are sequences of characters.
NoRegexp == [set |-> FALSE, lit |-> <<>>, start |-> FALSE, end |-> FALSE]
MustNewRegexp(lit, start, end) ==
    [set |-> TRUE, lit |-> lit, start |-> start, end |-> end]

\* regexp.MatchString: the pattern matches somewhere in s.
MatchString(re, s) ==
    \E i \in 1..(Len(s) + 1) :
        /\ i + Len(re.lit) - 1 <= Len(s)
        /\ SubSeq(s, i, i + Len(re.lit) - 1) = re.lit
        /\ re.start => i = 1
        /\ re.end => i + Len(re.lit) - 1 = Len(s)

\* Regexp.Match: rf == nil || rf.r == nil || rf.r.MatchString(s)
Match(rf, s) == ~rf.set \/ MatchString(rf, s)

\* The fields of config.MetricConfig that the model carries.
Fields ==
    {"PrometheusName", "MQTTName", "SensorNameFilter", "TopicPathFilter",
     "OmitTimestamp", "RawExpression", "Expression", "ForceMonotonicy",
     "StringValueMapping", "MQTTValueScale", "ErrorValue"}

\* The zero value of the type of field f (reflect.Value.IsZero).
Zero(f) ==
    CASE f \in {"PrometheusName", "MQTTName", "RawExpression", "Expression"} -> ""
      [] f \in {"SensorNameFilter", "TopicPathFilter"} -> NoRegexp
      [] f \in {"OmitTimestamp", "ForceMonotonicy"} -> FALSE
      [] f = "MQTTValueScale" -> 0
      [] f = "ErrorValue" -> NoFloat
      [] f = "StringValueMapping" -> NoMapping

\* var MetricConfigDefaults
MetricConfigDefaults ==
    [f \in Fields |-> IF f = "TopicPathFilter" THEN MustNewRegexp(<<>>, FALSE, FALSE)
                      ELSE Zero(f)]

\* yaml.UnmarshalStrict of one rule fragment of the document (a function from
\* the keys the document writes to their values) into a MetricConfig: a key
\* that is not written leaves the zero value.
UnmarshalMetric(frag) ==
    [f \in Fields |-> IF f \in DOMAIN frag THEN frag[f] ELSE Zero(f)]

\* yaml.UnmarshalStrict of the metrics of the document into []BlockConfig.
UnmarshalBlocks(doc) ==
    [b \in DOMAIN doc |->
        [SharedValues |-> UnmarshalMetric(doc[b].shared),
         Metrics |-> [i \in DOMAIN doc[b].metrics |->
                         UnmarshalMetric(doc[b].metrics[i])]]]

\* LoadConfig with a slip: a non-zero shared value overwrites what the rule has.
mergeFields_SourceWins(target, source) ==
    [f \in Fields |-> IF source[f] # Zero(f) THEN source[f] ELSE target[f]]

\* LoadConfig lines 261-267: every zero field of the target takes the non-zero
\* field of the source.
mergeFields(target, source) ==
    [f \in Fields |-> IF target[f] = Zero(f) /\ source[f] # Zero(f)
                      THEN source[f] ELSE target[f]]

\* LoadConfig lines 254-270: each rule of each block is filled from the shared
\* values of its block and then from MetricConfigDefaults.
mergeBlocks(blocks) ==
    [b \in DOMAIN blocks |->
        [SharedValues |-> blocks[b].SharedValues,
         Metrics |-> [i \in DOMAIN blocks[b].Metrics |->
                         mergeFields(mergeFields(blocks[b].Metrics[i],
                                                 blocks[b].SharedValues),
                                     MetricConfigDefaults)]]]

\* LoadConfig lines 274-296: the first error the loop over the rules returns,
\* "" when it returns none.
RECURSIVE validateFrom(_, _, _)
validateFrom(blocks, b, i) ==
    IF b > Len(blocks) THEN ""
    ELSE IF i > Len(blocks[b].Metrics) THEN validateFrom(blocks, b + 1, 1)
    ELSE LET m == blocks[b].Metrics[i] IN
         IF m.StringValueMapping.set /\ m.StringValueMapping.ErrorValue.set
               /\ m.ErrorValue.set
         THEN "both error values"
         ELSE IF m.Expression # "" /\ m.RawExpression # ""
         THEN "mutually exclusive"
         ELSE validateFrom(blocks, b, i + 1)

\* LoadConfig lines 287-290: an omitted MQTTName is the PrometheusName.
defaultNames(blocks) ==
    [b \in DOMAIN blocks |->
        [SharedValues |-> blocks[b].SharedValues,
         Metrics |-> [i \in DOMAIN blocks[b].Metrics |->
                         IF blocks[b].Metrics[i].MQTTName = ""
                         THEN [blocks[b].Metrics[i] EXCEPT
                                  !["MQTTName"] = blocks[b].Metrics[i].PrometheusName]
                         ELSE blocks[b].Metrics[i]]]]

\* Config{} and the configuration LoadConfig returns, as far as its metrics go.
EmptyConfig == [Metrics |-> <<>>]
\* BlockConfig{}
ZeroBlock == [SharedValues |-> [f \in Fields |-> Zero(f)], Metrics |-> <<>>]

\* What the configuration file holds beside its metrics, as far as LoadConfig
\* depends on it. readable: ioutil.ReadFile succeeds. yaml: the error of
\* yaml.UnmarshalStrict, "" for none, "syntax" for a document that is not YAML
\* (nothing is decoded), "field" for a key that the structs do not have or
\* that is written twice (every other key is decoded), "pattern" for a
\* sensor_name_filter that regexp.Compile rejects, in a rule of the block stop
\* (Regexp.UnmarshalYAML returns the error and the decoding ends there, with
\* the blocks before decoded and the others still zero). deviceID: the mqtt
\* section is omitted or leaves device_id_regex out ("default"), or writes a
\* pattern with or without the group deviceid ("group", "nogroup"). perTopic:
\* the mqtt section has no metric_per_topic ("none"), one whose
\* metric_name_regex has the group metricname or not ("group", "nogroup"), or
\* one without metric_name_regex ("unset").
PlainFile ==
    [readable |-> TRUE, yaml |-> "", stop |-> 0, deviceID |-> "default",
     perTopic |-> "none"]
Sections ==
    {PlainFile, [PlainFile EXCEPT !.readable = FALSE]}
      \cup {[PlainFile EXCEPT !.yaml = y] : y \in {"syntax", "field"}}
      \cup {[PlainFile EXCEPT !.yaml = "pattern", !.stop = k] : k \in 1..2}
      \cup {[PlainFile EXCEPT !.deviceID = d] : d \in {"group", "nogroup"}}
      \cup {[PlainFile EXCEPT !.perTopic = t] : t \in {"group", "nogroup", "unset"}}

\* LoadConfig, lines 201-304, on the file with the metrics doc and the other
\* sections file; canMkdir: os.MkdirAll succeeds. ok says that the error is
\* nil, cfg is the Config returned, as far as its metrics go.
\* Lines 202-205: a file that cannot be read gives Config{} and the error.
\* Lines 206-209: a document that fails strict decoding gives the error and
\* cfg as decoded, not merged and not validated.
\* Lines 223-234: a device_id_regex without the group deviceid gives Config{}
\* and an error.
\* Lines 242-252: with metric_per_topic, a metric_name_regex that is missing
\* is a nil pointer dereference at line 244 (the goroutine panics and
\* LoadConfig returns nothing, err "panic"), one without the group metricname
\* gives Config{} and an error.
\* Lines 254-303: the merge, the validation of the rules and the creation of
\* the state directory.
LoadConfig(doc, file, canMkdir) ==
    LET blocks == UnmarshalBlocks(doc)
        merged == mergeBlocks(blocks)
        err == validateFrom(merged, 1, 1)
        forcesMonotonicy ==
            \E b \in DOMAIN merged : \E i \in DOMAIN merged[b].Metrics :
                merged[b].Metrics[i].ForceMonotonicy
        failed(e) == [ok |-> FALSE, cfg |-> EmptyConfig, err |-> e]
        stopped == [b \in DOMAIN blocks |->
                       IF b < file.stop THEN blocks[b] ELSE ZeroBlock]
    IN  IF ~file.readable THEN failed("read")
        ELSE IF file.yaml = "syntax" THEN failed("yaml")
        ELSE IF file.yaml = "field"
        THEN [ok |-> FALSE, cfg |-> [Metrics |-> blocks], err |-> "yaml"]
        ELSE IF file.yaml = "pattern"
        THEN [ok |-> FALSE, cfg |-> [Metrics |-> stopped], err |-> "yaml"]
        ELSE IF file.deviceID = "nogroup" THEN failed("device id regex")
        ELSE IF file.perTopic = "unset" THEN failed("panic")
        ELSE IF file.perTopic = "nogroup" THEN failed("metric name regex")
        ELSE IF err # "" THEN failed(err)
        ELSE IF forcesMonotonicy /\ ~canMkdir THEN failed("state directory")
        ELSE [ok |-> TRUE, cfg |-> [Metrics |-> defaultNames(merged)], err |-> ""]

\* The MQTT names of the model: the keys of Parser.metricConfigs.
MQTTNames == {"t", "h", "p1", "p2"}

\* NewParser lines 152-158: cfgs[key] = append(cfgs[key], &metrics.Metrics[i]),
\* blocks in order, rules in order. A pointer to a rule is the pair of the
\* index of its block and its index in the block; a key without entry reads as
\* the empty list.
RECURSIVE appendConfigs(_, _, _, _)
appendConfigs(cfgs, blocks, b, i) ==
    IF b > Len(blocks) THEN cfgs
    ELSE IF i > Len(blocks[b].Metrics) THEN appendConfigs(cfgs, blocks, b + 1, 1)
    ELSE LET key == blocks[b].Metrics[i].MQTTName IN
         appendConfigs([cfgs EXCEPT ![key] = Append(@, <<b, i>>)], blocks, b, i + 1)

\* NewParser: the metricConfigs of the parser.
NewParser(blocks) == appendConfigs([k \in MQTTNames |-> <<>>], blocks, 1, 1)

\* findMetricConfigs with a slip: only the first matching rule is returned.
RECURSIVE findMetricConfigs_FirstOnly(_, _, _)
findMetricConfigs_FirstOnly(blocks, candidates, deviceID) ==
    IF candidates = <<>> THEN <<>>
    ELSE LET c == Head(candidates) IN
         IF Match(blocks[c[1]].Metrics[c[2]].SensorNameFilter, deviceID)
         THEN <<c>>
         ELSE findMetricConfigs_FirstOnly(blocks, Tail(candidates), deviceID)

\* Parser.findMetricConfigs over candidates = p.metricConfigs[metric].
RECURSIVE findMetricConfigs(_, _, _)
findMetricConfigs(blocks, candidates, deviceID) ==
    IF candidates = <<>> THEN <<>>
    ELSE LET c == Head(candidates)
             rest == findMetricConfigs(blocks, Tail(candidates), deviceID)
         IN IF Match(blocks[c[1]].Metrics[c[2]].SensorNameFilter, deviceID)
            THEN <<c>> \o rest
            ELSE rest

\* The patterns and the device identities of the model.
PatK == MustNewRegexp(<<"k">>, FALSE, FALSE)
PatEnd1 == MustNewRegexp(<<"1">>, FALSE, TRUE)
DeviceIDs == {<<"k", "1">>, <<"k", "2">>, <<"l", "1">>}

\* The rule fragments of the configuration documents: the keys a fragment
\* writes, with their values (a key may be written with a zero value).
RuleFragments ==
    << ("PrometheusName" :> "p1") @@ ("MQTTName" :> "t")
          @@ ("Expression" :> EValuePlusLast),
       ("PrometheusName" :> "p2") @@ ("MQTTName" :> "t")
          @@ ("SensorNameFilter" :> PatK) @@ ("RawExpression" :> ERawHead),
       ("PrometheusName" :> "p1") @@ ("OmitTimestamp" :> FALSE)
          @@ ("MQTTValueScale" :> 0) @@ ("ErrorValue" :> SomeFloat(0)),
       ("PrometheusName" :> "p2") @@ ("MQTTName" :> "h")
          @@ ("SensorNameFilter" :> PatEnd1) @@ ("OmitTimestamp" :> TRUE)
          @@ ("MQTTValueScale" :> 2) @@ ("ForceMonotonicy" :> TRUE),
       ("PrometheusName" :> "p1") @@ ("MQTTName" :> "t") @@ ("Expression" :> "")
          @@ ("StringValueMapping" :>
                 Mapping({[k |-> "RUNNING", v |-> 1]}, SomeFloat(1))) >>

\* The shared fragments of the blocks.
SharedFragments ==
    << ("Help" :> "shared"),
       ("OmitTimestamp" :> TRUE) @@ ("MQTTValueScale" :> 3)
          @@ ("ErrorValue" :> SomeFloat(5)),
       ("Expression" :> EFloatRaw) @@ ("SensorNameFilter" :> PatK),
       ("RawExpression" :> EFloatRaw) @@ ("MQTTName" :> "h")
          @@ ("OmitTimestamp" :> FALSE) >>

\* A block of the document: its shared fragment and its rule fragments, by
\* their indices in SharedFragments and RuleFragments.
Block(sh, rules) ==
    [shared |-> SharedFragments[sh],
     metrics |-> [i \in DOMAIN rules |-> RuleFragments[rules[i]]]]

\* The sequences of 1..n indices of rule fragments.
RuleLists(n) == UNION {[1..k -> DOMAIN RuleFragments] : k \in 1..n}

\* The configuration documents of the model: one block of up to MaxRules rules,
\* or two blocks of one rule each.
ConfigFiles ==
    {<<Block(sh, rules)>> : sh \in DOMAIN SharedFragments, rules \in RuleLists(MaxRules)}
      \cup {<<Block(sh1, <<r1>>), Block(sh2, <<r2>>)>> :
               sh1 \in {1, 3}, sh2 \in {1, 3}, r1 \in {1, 2, 4}, r2 \in {1, 2, 4}}

\* ------------------------------------------------------------------ state
VARIABLES
    states,     \* Parser.states: the cache of metricState by identity
    disk,       \* the state files of the state directory, by identity
    clock,      \* what now() returns
    stateDir,      \* the state directory while the goroutines run (StateDirs)
    cfg,        \* the rule of the metric identity
    inputs,     \* the raw values the rule is fed
    calls,      \* number of parseMetric calls so far
    ret,        \* the last parseMetric call: its inputs and what it returned
    lastOut,    \* the last value enforceMonotonicy returned in this process
    lastEval,   \* the last successful evalExpressionValue of this process
    before,     \* the in-memory dynamic state before the last update of it
    hist,       \* the history of the writes, resets and label evaluations
    trace,      \* the inputs and outputs of the successful calls (SpecTrace)
    threads,    \* the goroutines inside enforceMonotonicy: position and locals
    started,    \* the cache and the files when the goroutines started
    hmap,       \* the map p.states as the runtime holds it (SpecConc)
    configFile, \* the metrics of the configuration document
    loaded,     \* what LoadConfig returned
    metricConfigs, \* Parser.metricConfigs
    found       \* the last findMetricConfigs call and what it returned

\* The variables of the concurrent invocations (SpecConc).
concVars == <<threads, started, hmap>>

\* The variables of the configuration (SpecConfig).
confVars == <<configFile, loaded, metricConfigs, found>>

vars == <<states, disk, clock, stateDir, cfg, inputs, calls, ret, lastOut, lastEval,
          before, hist, trace, concVars, confVars>>

NoOut == [set |-> FALSE, v |-> 0]
NoEval == [set |-> FALSE, value |-> 0, raw |-> Nil, result |-> 0, time |-> ZeroTime]
\* No successful evaluation of a label expression yet (its result is a text).
NoLabelEval ==
    [set |-> FALSE, value |-> 0, raw |-> Nil, result |-> "", time |-> ZeroTime]
\* No write of a state file yet; no reset waiting to be written.
NoWrite == [set |-> FALSE, time |-> ZeroTime, dirty |-> FALSE]
NoPending == [set |-> FALSE, offset |-> 0]
LabelNames == {"a", "b"}

\* The history at the start: written is, per identity, the time of the last
\* successful write of its state file and whether the state was marked dirty
\* since; pending is the offset of a detected reset that no write has followed;
\* lastLabel is, per label, the last successful evaluation in this process.
\* compiles counts, per identity, the successful compilations in this process
\* (up to MaxCompiles).
NoHistory ==
    [written |-> [id \in IDs |-> NoWrite], pending |-> NoPending,
     lastLabel |-> [k \in LabelNames |-> NoLabelEval],
     compiles |-> [id \in IDs |-> 0]]

\* The compilations counted after a parseMetric call with result r.
Compiles(count, r) ==
    [id \in IDs |->
        LET n == IF id = MetricID
                 THEN IF r.expr.compiled THEN 1 ELSE 0
                 ELSE Cardinality({i \in DOMAIN r.labels :
                                     /\ labelID(r.labels[i].k, MetricID) = id
                                     /\ r.labels[i].compiled})
        IN  IF count[id] + n > MaxCompiles THEN MaxCompiles ELSE count[id] + n]

NoRet ==
    [called |-> FALSE, raw |-> Nil, now |-> ZeroTime, outcome |-> "", err |-> "",
     metric |-> NoMetric, typed |-> 0, expr |-> NoStep, mono |-> NoStep,
     wasCached |-> FALSE, file |-> Absent, prevOut |-> NoOut, prevEval |-> NoEval,
     writable |-> NoMetric, labels |-> <<>>, accesses |-> <<>>,
     prevLabel |-> [k \in LabelNames |-> NoLabelEval],
     prevCompiles |-> <<>>, LabelsKeys |-> <<>>, Description |-> <<>>,
     preS |-> <<>>, preD |-> <<>>, valueS |-> <<>>, valueD |-> <<>>]

\* The accesses to the state store (calls of getMetricState) that one
\* parseMetric call with result r made, in order: evalExpressionValue,
\* enforceMonotonicy, then evalExpressionLabel per label. reset says that the
\* access was followed by the detection of a reset, offset is the offset in
\* memory after the call.
Accesses(r) ==
    LET of(id, step, isMono) ==
          [id |-> id, tried |-> step.tried, wrote |-> step.wrote,
           dirty |-> step.dirty, file |-> step.file,
           reset |-> isMono /\ step.err = "" /\ step.dirty,
           offset |-> r.S[MetricID].st.dynamic.Offset]
    IN  (IF r.expr.called THEN <<of(MetricID, r.expr, FALSE)>> ELSE <<>>)
        \o (IF r.mono.called THEN <<of(MetricID, r.mono, TRUE)>> ELSE <<>>)
        \o [i \in 1..Len(r.labels) |->
               of(labelID(r.labels[i].k, MetricID), r.labels[i], FALSE)]

\* The history after the accesses accs[i..] at time now, and the accesses with
\* what the history held when each was made (prev: the last write of the
\* identity, pending: the reset waiting to be written).
RECURSIVE Replay(_, _, _, _, _, _)
Replay(accs, i, now, written, pending, events) ==
    IF i > Len(accs)
    THEN [written |-> written, pending |-> pending, events |-> events]
    ELSE
    LET a == accs[i]
        w0 == written[a.id]
        w1 == IF a.wrote THEN [set |-> TRUE, time |-> now, dirty |-> FALSE] ELSE w0
        w2 == IF a.dirty THEN [w1 EXCEPT !.dirty = TRUE] ELSE w1
        mine == a.id = MetricID
        p1 == IF mine /\ a.wrote THEN NoPending ELSE pending
        p2 == IF mine /\ a.reset THEN [set |-> TRUE, offset |-> a.offset] ELSE p1
        event == [id |-> a.id, time |-> now, tried |-> a.tried, wrote |-> a.wrote,
                  file |-> a.file, prev |-> w0,
                  pending |-> IF mine THEN pending ELSE NoPending]
    IN Replay(accs, i + 1, now, [written EXCEPT ![a.id] = w2], p2,
              Append(events, event))

\* The last successful evaluation of each label after the label steps.
LabelEvals(last, steps, raw, now) ==
    [k \in LabelNames |->
        IF \E i \in DOMAIN steps : steps[i].k = k /\ steps[i].err = ""
        THEN LET st == steps[CHOOSE i \in DOMAIN steps : steps[i].k = k] IN
             [set |-> TRUE, value |-> st.in, raw |-> raw, result |-> st.out,
              time |-> now]
        ELSE last[k]]

\* No goroutine is inside the parser.
NoThreads == <<>>
\* The map p.states as the runtime holds it, beside the entries (states):
\* writing is the flag that a map assignment sets while it runs, bare says that
\* the key of the metric is in the map with a nil *metricState, as the map
\* assignment leaves it until line 357 stores the pointer.
NoMap == [writing |-> FALSE, bare |-> FALSE]
NotStarted == [S |-> <<>>, D |-> <<>>]

\* No configuration is loaded, no parser is built.
NotLoaded == [done |-> FALSE, ok |-> FALSE, cfg |-> EmptyConfig, err |-> ""]
NoParser == [built |-> FALSE, cfgs |-> <<>>]
NotFound == [called |-> FALSE, metric |-> "", deviceID |-> <<>>, configs |-> <<>>]

\* The configuration is not part of the runs of the parser.
InitNoConfig ==
    /\ configFile = <<>>
    /\ loaded = NotLoaded
    /\ metricConfigs = NoParser
    /\ found = NotFound

InitCommon ==
    /\ InitNoConfig
    /\ hist = NoHistory
    /\ threads = NoThreads
    /\ started = NotStarted
    /\ hmap = NoMap
    /\ states = [id \in IDs |-> NotCached]
    /\ clock = 1
    /\ stateDir = "writable"
    /\ calls = 0
    /\ ret = NoRet
    /\ lastOut = NoOut
    /\ lastEval = NoEval
    /\ before = ZeroDynamic
    /\ trace = <<>>

\* The state files left by an earlier process are for the rules without dynamic
\* labels; a rule with labels starts without files, and Restart gives it
\* processes that start from the files of an earlier one.
Init ==
    /\ InitCommon
    /\ \E sc \in Scenarios : cfg = sc.cfg /\ inputs = sc.inputs
    /\ \E f \in InitialFiles :
          /\ cfg.DynamicLabels # {} => f = Absent
          /\ disk = [id \in IDs |-> IF id = MetricID THEN f ELSE Absent]

InitTrace ==
    /\ InitCommon
    /\ cfg = MonotonicRule
    /\ inputs = TraceInputs
    /\ disk = [id \in IDs |-> Absent]

\* What one parseMetric call leaves behind, given its result r and the
\* Description and LabelsKeys of the Metric it returns (lines 291 and 296).
Returned(raw, r, ideal, events, described) ==
    [called |-> TRUE, raw |-> raw, now |-> clock, outcome |-> r.outcome,
     err |-> r.err, metric |-> r.metric, typed |-> r.typed, expr |-> r.expr,
     mono |-> r.mono, wasCached |-> states[MetricID].cached,
     file |-> disk[MetricID], prevOut |-> lastOut, prevEval |-> lastEval,
     writable |-> ideal.metric, labels |-> r.labels, accesses |-> events,
     prevLabel |-> hist.lastLabel, prevCompiles |-> hist.compiles,
     LabelsKeys |-> IF r.outcome = "ok" THEN described.keys ELSE <<>>,
     Description |-> IF r.outcome = "ok" THEN described.desc ELSE <<>>,
     preS |-> states, preD |-> disk, valueS |-> r.valueS, valueD |-> r.valueD]

\* The effect of one parseMetric call on every variable but calls and trace.
\* A panic ends the process: the next call finds an empty cache.
\* The last update of the dynamic state is that of enforceMonotonicy (offset and
\* lastRawValue) when it succeeded, else that of evalExpressionValue.
\* The call r attempted a write of a state file.
Tries(r) ==
    \/ r.expr.called /\ r.expr.tried
    \/ r.mono.called /\ r.mono.tried
    \/ \E i \in DOMAIN r.labels : r.labels[i].tried

\* The call finds the state directory in any of its conditions; ideal is the
\* result of the same call with a writable directory. Only writeMetricState
\* depends on the directory, so a call that attempts no write with a writable
\* directory has the same result with any.
Call(raw, order, described) ==
    \E ideal \in {parseMetric(states, disk, cfg, MetricID, raw, clock,
                               "writable", order)} :
    \E r \in {ideal} \cup
             (IF Tries(ideal)
              THEN {parseMetric(states, disk, cfg, MetricID, raw, clock, dir, order) :
                       dir \in StateDirs \ {"writable"}}
              ELSE {}) :
    \E h \in {Replay(Accesses(r), 1, clock, hist.written, hist.pending, <<>>)} :
    LET died == r.outcome = "panic"
        old == IF states[MetricID].cached THEN states[MetricID].st.dynamic
               ELSE readMetricState(disk, MetricID, clock).state.dynamic
    IN
    /\ states' = IF died THEN [id \in IDs |-> NotCached] ELSE r.S
    /\ disk' = r.D
    /\ ret' = Returned(raw, r, ideal, h.events, described)
    /\ hist' = [written |-> h.written,
                pending |-> IF died THEN NoPending ELSE h.pending,
                lastLabel |-> IF died THEN NoHistory.lastLabel
                              ELSE LabelEvals(hist.lastLabel, r.labels, raw, clock),
                compiles |-> IF died THEN NoHistory.compiles
                             ELSE Compiles(hist.compiles, r)]
    /\ lastOut' = IF died THEN NoOut
                  ELSE IF r.mono.called /\ r.mono.err = ""
                  THEN [set |-> TRUE, v |-> r.mono.out]
                  ELSE lastOut
    /\ lastEval' = IF died THEN NoEval
                   ELSE IF r.expr.called /\ r.expr.err = ""
                   THEN [set |-> TRUE, value |-> r.expr.in, raw |-> raw,
                         result |-> r.expr.out, time |-> clock]
                   ELSE lastEval
    /\ before' = IF died THEN before
                 ELSE IF r.mono.called /\ r.mono.err = ""
                 THEN [r.S[MetricID].st.dynamic EXCEPT
                          !.Offset = old.Offset, !.LastRawValue = old.LastRawValue]
                 ELSE IF r.expr.called /\ r.expr.err = ""
                 THEN old
                 ELSE before
    /\ UNCHANGED <<clock, stateDir, cfg, inputs, concVars, confVars>>

\* One inbound message: Parser.parseMetric on one raw value.
ParseMetric ==
    /\ calls < MaxCalls
    /\ \E raw \in inputs : \E order \in Orders(cfg.DynamicLabels) :
          \E described \in Descriptions(cfg) : Call(raw, order, described)
    /\ calls' = calls + 1
    /\ UNCHANGED trace

\* One inbound message, with the successful calls recorded.
TracedParseMetric ==
    /\ Len(trace) < MaxTrace
    /\ \E raw \in inputs : \E order \in Orders(cfg.DynamicLabels) :
          /\ \E described \in Descriptions(cfg) : Call(raw, order, described)
          /\ trace' = IF ret'.outcome = "ok"
                      THEN Append(trace, [in |-> ret'.mono.in,
                                          out |-> ret'.metric.Value,
                                          crash |-> FALSE, current |-> TRUE])
                      ELSE trace
    /\ UNCHANGED calls

\* Time passes.
Tick ==
    /\ clock < MaxTime
    /\ clock' = clock + 1
    /\ UNCHANGED <<states, disk, stateDir, cfg, inputs, calls, ret, lastOut, lastEval,
                   before, hist, trace, concVars, confVars>>

\* A new process starts: the cache is empty and nothing is known of the calls of
\* the process before.
Restarted ==
    /\ states' = [id \in IDs |-> NotCached]
    /\ lastOut' = NoOut
    /\ lastEval' = NoEval
    /\ hist' = [hist EXCEPT !.pending = NoPending,
                            !.lastLabel = NoHistory.lastLabel,
                            !.compiles = NoHistory.compiles]
    /\ UNCHANGED <<clock, stateDir, cfg, inputs, calls, before, concVars, confVars>>

\* The process is stopped between two messages and a new one starts: the state
\* files are what they were.
Restart ==
    /\ Restarted
    /\ ret' = NoRet
    /\ UNCHANGED <<disk, trace>>

\* The state file of the rule holds the offset and lastRawValue that the
\* process has in memory, if it has any.
FileIsCurrent(S, D) ==
    S[MetricID].cached =>
        /\ D[MetricID].kind = "record"
        /\ D[MetricID].dynamic.Offset = S[MetricID].st.dynamic.Offset
        /\ D[MetricID].dynamic.LastRawValue = S[MetricID].st.dynamic.LastRawValue

\* Where the process can end inside the enforceMonotonicy of a parseMetric
\* call: on entry (line 352), with the state loaded (before line 337), with the
\* state file truncated (between lines 337 and 342), with the file written
\* (after line 342), with the offset changed (after line 377) and with
\* lastRawValue stored (after line 382, before the caller has the Metric).
CrashPoints == {"entered", "loaded", "truncated", "written", "added", "stored"}

\* The cache S and the files D at the point at of enforceMonotonicy(id, value)
\* called with the cache S and the files D; reached says that the call gets to
\* that point.
Crashed(S, D, id, value, now, canWrite, at) ==
    LET r == readMetricState(D, id, now)
        present == S[id].cached \/ r.err = ""
        st == IF S[id].cached THEN S[id].st ELSE r.state
        due == Since(now, st.lastWritten) >= Minute
        w == writeMetricState(D, id, st, canWrite)
        opened == due /\ canWrite # "unwritable" /\ D[id].kind \in Writable
        wrote == due /\ w.err = ""
        st1 == IF wrote THEN [st EXCEPT !.lastWritten = now] ELSE st
        proceeds == present /\ (due => w.err = "")
        reset == value < st.dynamic.LastRawValue
        st2 == IF reset
               THEN [st1 EXCEPT !.dynamic.Offset = @ + st.dynamic.LastRawValue]
               ELSE st1
        st3 == [st2 EXCEPT !.dynamic.LastRawValue = value,
                           !.lastWritten = IF reset THEN ZeroTime ELSE @]
        with(x) == [S EXCEPT ![id] = Cached(x)]
    IN
    CASE at = "entered" -> [reached |-> TRUE, at |-> at, S |-> S, D |-> D]
      [] at = "loaded" -> [reached |-> present, at |-> at, S |-> with(st), D |-> D]
      [] at = "truncated" ->
            [reached |-> present /\ opened, at |-> at, S |-> with(st),
             D |-> [D EXCEPT ![id] = Empty]]
      [] at = "written" ->
            [reached |-> present /\ wrote, at |-> at, S |-> with(st), D |-> w.D]
      [] at = "added" ->
            [reached |-> proceeds /\ reset, at |-> at, S |-> with(st2),
             D |-> IF wrote THEN w.D ELSE D]
      [] OTHER ->
            [reached |-> proceeds, at |-> at, S |-> with(st3),
             D |-> IF wrote THEN w.D ELSE D]

\* The process crashes inside a parseMetric call, or between two calls, and a
\* new one starts. The crash is recorded among the outputs: current says that the
\* state file was current at the crash. ret holds the cache and the files at the
\* start of the call (preS, preD) and at the crash (valueS, valueD). The state
\* directory matters from os.OpenFile on: a call in a directory where
\* os.OpenFile or f.Write fails gets to no point, and to no cache and files at
\* a point, that the call in a writable directory does not get to.
Crash ==
    /\ Len(trace) < MaxTrace
    /\ \E o \in {Crashed(states, disk, MetricID, resolveType(cfg, raw).n, clock,
                         "writable", at) :
                    raw \in {i \in inputs : resolveType(cfg, i).ok},
                    at \in CrashPoints} :
          /\ o.reached
          /\ disk' = o.D
          /\ ret' = [NoRet EXCEPT !.outcome = "crashed", !.err = o.at,
                                  !.preS = states, !.preD = disk,
                                  !.valueS = o.S, !.valueD = o.D]
          /\ trace' = Append(trace, [in |-> 0, out |-> 0, crash |-> TRUE,
                                     current |-> FileIsCurrent(o.S, o.D)])
    /\ Restarted

Next == ParseMetric \/ Tick \/ Restart
Spec == Init /\ [][Next]_vars

NextTrace == TracedParseMetric \/ Tick
SpecTrace == InitTrace /\ [][NextTrace]_vars

\* Rules without error value whose later steps can fail after an earlier step
\* changed the state, in one process.
AbortScenarios ==
    { [cfg |-> Rule("", "", NoFloat, TRUE, 0, LabelsAB),
       inputs |-> {F(2), B(TRUE)}],
      [cfg |-> Rule("", EValuePlusLast, NoFloat, TRUE, 0, {}),
       inputs |-> {F(1), F(2)}],
      [cfg |-> Rule(EFloatRaw, "", NoFloat, TRUE, 0, {}),
       inputs |-> {F(2), Str("x")}],
      [cfg |-> Rule("", "", NoFloat, TRUE, 0, {}),
       inputs |-> {F(2), Str("x")}] }

InitAbort ==
    /\ InitCommon
    /\ \E sc \in AbortScenarios : cfg = sc.cfg /\ inputs = sc.inputs
    /\ \E f \in {Absent, Record(StoredDynamic)} :
          disk = [id \in IDs |-> IF id = MetricID THEN f ELSE Absent]

NextAbort == ParseMetric \/ Tick
SpecAbort == InitAbort /\ [][NextAbort]_vars

\* The force_monotonicy rule fed values by a process that crashes and restarts.
CrashInputs == {F(10), F(15), F(20)}

InitCrash ==
    /\ InitCommon
    /\ cfg = MonotonicRule
    /\ inputs = CrashInputs
    /\ disk = [id \in IDs |-> Absent]

NextCrash == TracedParseMetric \/ Tick \/ Crash
SpecCrash == InitCrash /\ [][NextCrash]_vars

\* ------------------------------------------------- concurrent invocations
\* Two goroutines call enforceMonotonicy for the same metric identity. Parser
\* holds no lock (lines 47-56), so the two calls interleave; a goroutine's step
\* is one access to the shared memory (the map p.states, a field of the
\* metricState) or one system call on the state file.
Goroutines == {1, 2}
\* The working values the goroutines are called with.
ConcInputs == {1, 2, 5}
\* The fields of dynamicState that enforceMonotonicy changes.
RacingFields == {"Offset", "LastRawValue"}

\* The locals of a goroutine: its position pc, its argument value, what its
\* pointer ms refers to ("cache": the object p.states holds, "own": an object
\* the cache does not or no longer hold, kept in obj, "nil": nothing), the
\* length of the buffer made for the file (size), the field it has read of
\* a pair of fields it reads one after the other (part), the operands read for
\* += (off, lrv), the copy of state.dynamic handed to yaml.Marshal (data), and
\* what it returned.
Thread(value) ==
    [pc |-> "lookup", value |-> value, ms |-> "none", obj |-> ZeroState,
     size |-> 0, part |-> "", off |-> 0, lrv |-> 0, data |-> ZeroDynamic,
     out |-> 0, err |-> ""]

\* The metricState the pointer of goroutine g refers to.
Obj(g) == IF threads[g].ms = "cache" THEN states[MetricID].st ELSE threads[g].obj

\* The effect of goroutine g assigning st to the object its pointer refers to
\* and moving on with the locals loc.
Assign(g, st, loc) ==
    IF threads[g].ms = "cache"
    THEN /\ states' = [states EXCEPT ![MetricID] = Cached(st)]
         /\ threads' = [threads EXCEPT ![g] = loc]
    ELSE /\ states' = states
         /\ threads' = [threads EXCEPT ![g] = [loc EXCEPT !.obj = st]]

\* enforceMonotonicy lines 372-374: the error of getMetricState is returned
\* with the value as it came in.
Failed373(g, e) ==
    [threads[g] EXCEPT !.pc = "done", !.err = e, !.out = threads[g].value]

\* The goroutine g brings the process down: a fatal error of the runtime or a
\* panic that nothing recovers. Its call does not return.
Down(g, e) == [threads[g] EXCEPT !.pc = "aborted", !.err = e]

\* The positions at which a goroutine is inside enforceMonotonicy.
Running == {"lookup", "find", "read", "stat", "readdata", "insert", "assign",
            "assigned", "clear", "inserting", "flush", "marshal", "open",
            "write", "written", "compare", "load", "add", "mark", "store",
            "return"}

\* The state of the variables that the concurrent invocations leave alone.
ConcFrame == UNCHANGED <<stateDir, cfg, inputs, calls, ret, lastOut, lastEval,
                         before, hist, trace, started, confVars>>

\* The number of digits yaml.Marshal writes for the float n of these runs.
Digits(n) == IF n < 10 THEN 1 ELSE IF n < 100 THEN 2 ELSE 3

\* The length of a state file, up to the part that is the same in every record
\* of these runs (the keys and the lastExpr* fields).
Size(file) ==
    IF file.kind = "record"
    THEN Digits(file.dynamic.Offset) + Digits(file.dynamic.LastRawValue)
    ELSE 0

\* f.Write(out) on a file that another descriptor wrote since this one
\* truncated it: the bytes go to offset 0 and what the file holds beyond them
\* stays. A record that is longer by one byte leaves its final newline, which
\* parses as the record written; a longer rest is not YAML.
Overlay(new, old) == IF Size(old) - Size(new) >= 2 THEN Corrupt ELSE new

\* f.Read(data) into the buffer of size bytes that line 320 made, from the file
\* as it is now: a buffer of length 0 stays empty; a file shorter than the
\* buffer (truncated or rewritten since f.Stat) leaves NUL bytes at the end of
\* the buffer, which is not YAML; of a file longer than the buffer the rest is
\* cut, which loses the final newline or more. Files that are no records are
\* read as they are.
Buffer(size, file) ==
    CASE file.kind = "empty" -> IF size = 0 THEN Empty ELSE Corrupt
      [] file.kind = "record" ->
            IF size = 0 THEN Empty
            ELSE IF Size(file) < size \/ Size(file) - size >= 2 THEN Corrupt
            ELSE file
      [] OTHER -> file

InitConc ==
    /\ InitNoConfig
    /\ hist = NoHistory
    /\ clock = 1
    /\ stateDir \in StateDirs
    /\ cfg = MonotonicRule
    /\ inputs = {F(v) : v \in ConcInputs}
    /\ calls = 0
    /\ ret = NoRet
    /\ lastOut = NoOut
    /\ lastEval = NoEval
    /\ before = ZeroDynamic
    /\ trace = <<>>
    /\ hmap = NoMap
    /\ \E f \in {Absent, Record(StoredDynamic)} :
          disk = [id \in IDs |-> IF id = MetricID THEN f ELSE Absent]
    /\ \E c \in {NotCached,
                  Cached([ZeroState EXCEPT !.dynamic = StoredDynamic,
                                           !.lastWritten = 1])} :
          states = [id \in IDs |-> IF id = MetricID THEN c ELSE NotCached]
    /\ threads \in [Goroutines -> {Thread(v) : v \in ConcInputs}]
    /\ started = [S |-> states, D |-> disk]

\* Time passes while a goroutine is inside enforceMonotonicy.
ConcTick ==
    /\ clock < MaxTime
    /\ \E g \in Goroutines : threads[g].pc \in Running
    /\ clock' = clock + 1
    /\ UNCHANGED <<states, disk, threads, hmap>>
    /\ ConcFrame

\* getMetricState line 352, state, found := p.states[metricID]: the map access
\* begins; it finds no map assignment running.
Lookup(g) ==
    /\ threads[g].pc = "lookup"
    /\ ~hmap.writing
    /\ threads' = [threads EXCEPT ![g] = [@ EXCEPT !.pc = "find"]]
    /\ UNCHANGED <<states, disk, hmap, clock>>
    /\ ConcFrame

\* getMetricState line 352: the map access looks the key up. A key that a map
\* assignment has inserted and whose pointer line 357 has not stored yet is
\* found with a nil state.
Find(g) ==
    /\ threads[g].pc = "find"
    /\ threads' = [threads EXCEPT ![g] =
                     IF hmap.bare
                     THEN [@ EXCEPT !.pc = "flush", !.ms = "nil"]
                     ELSE IF states[MetricID].cached
                     THEN [@ EXCEPT !.pc = "flush", !.ms = "cache"]
                     ELSE [@ EXCEPT !.pc = "read"]]
    /\ UNCHANGED <<states, disk, hmap, clock>>
    /\ ConcFrame

\* readMetricState lines 307-315: os.Open. A file that does not exist gives
\* the new metricState and no error (lastWritten is not set); another error
\* reaches f.Name() with f = nil and the goroutine panics.
Open(g) ==
    /\ threads[g].pc = "read"
    /\ threads' = [threads EXCEPT ![g] =
                     CASE disk[MetricID].kind = "absent" ->
                             [@ EXCEPT !.pc = "insert", !.ms = "own",
                                       !.obj = ZeroState]
                       [] disk[MetricID].kind = "unopenable" -> Down(g, "panic")
                       [] OTHER -> [@ EXCEPT !.pc = "stat"]]
    /\ UNCHANGED <<states, disk, hmap, clock>>
    /\ ConcFrame

\* readMetricState lines 319-321: f.Stat and the buffer of the size it reports.
Stat(g) ==
    /\ threads[g].pc = "stat"
    /\ threads' = [threads EXCEPT ![g] =
                     [@ EXCEPT !.pc = "readdata", !.size = Size(disk[MetricID])]]
    /\ UNCHANGED <<states, disk, hmap, clock>>
    /\ ConcFrame

\* readMetricState lines 322-328: f.Read into the buffer, yaml.UnmarshalStrict,
\* lastWritten = now(); getMetricState lines 354-356 return its error.
Read(g) ==
    /\ threads[g].pc = "readdata"
    /\ \E r \in {readMetricState(
                    [disk EXCEPT ![MetricID] = Buffer(threads[g].size, @)],
                    MetricID, clock)} :
          threads' = [threads EXCEPT ![g] =
                        IF r.err # ""
                        THEN Failed373(g, r.err)
                        ELSE [@ EXCEPT !.pc = "insert", !.ms = "own",
                                       !.obj = r.state]]
    /\ UNCHANGED <<states, disk, hmap, clock>>
    /\ ConcFrame

\* getMetricState line 357, p.states[metricID] = state: the map assignment
\* begins; it finds no other map assignment running.
Insert(g) ==
    /\ threads[g].pc = "insert"
    /\ ~hmap.writing
    /\ threads' = [threads EXCEPT ![g] = [@ EXCEPT !.pc = "assign"]]
    /\ UNCHANGED <<states, disk, hmap, clock>>
    /\ ConcFrame

\* Line 357, inside the map assignment: the flag is toggled (flags ^= writing,
\* a load and a store, so that of two assignments running together the second
\* clears the flag or leaves it set) and the key is inserted, with a nil
\* pointer when the map did not hold it.
MapAssign(g) ==
    /\ threads[g].pc = "assign"
    /\ \E w \in {~hmap.writing, TRUE} :
          hmap' = [writing |-> w,
                   bare |-> hmap.bare \/ ~states[MetricID].cached]
    /\ threads' = [threads EXCEPT ![g] = [@ EXCEPT !.pc = "assigned"]]
    /\ UNCHANGED <<states, disk, clock>>
    /\ ConcFrame

\* Line 357, at the end of the map assignment: the flag is found set.
Assigned(g) ==
    /\ threads[g].pc = "assigned"
    /\ hmap.writing
    /\ threads' = [threads EXCEPT ![g] = [@ EXCEPT !.pc = "clear"]]
    /\ UNCHANGED <<states, disk, hmap, clock>>
    /\ ConcFrame

\* Line 357, at the end of the map assignment: the flag is cleared and the
\* slot of the key is returned.
Clear(g) ==
    /\ threads[g].pc = "clear"
    /\ hmap' = [hmap EXCEPT !.writing = FALSE]
    /\ threads' = [threads EXCEPT ![g] = [@ EXCEPT !.pc = "inserting"]]
    /\ UNCHANGED <<states, disk, clock>>
    /\ ConcFrame

\* getMetricState line 357: the pointer is stored in the slot of the key. A
\* goroutine that holds the object the cache held until now keeps that object.
Inserted(g) ==
    /\ threads[g].pc = "inserting"
    /\ states' = [states EXCEPT ![MetricID] = Cached(threads[g].obj)]
    /\ hmap' = [hmap EXCEPT !.bare = FALSE]
    /\ threads' = [h \in Goroutines |->
                     IF h = g
                     THEN [threads[h] EXCEPT !.pc = "flush", !.ms = "cache"]
                     ELSE IF threads[h].ms = "cache"
                     THEN [threads[h] EXCEPT !.ms = "own",
                                             !.obj = states[MetricID].st]
                     ELSE threads[h]]
    /\ UNCHANGED <<disk, clock>>
    /\ ConcFrame

\* Lines 352 and 357, the checks of the runtime for unsynchronised map
\* accesses: a map access or a map assignment that begins while the flag is
\* set ("fatal error: concurrent map read and map write", "concurrent map
\* writes"), and a map assignment that finds the flag cleared at its end
\* ("concurrent map writes"). The goroutine brings the process down; the other
\* goroutine runs on until the process has ended (Exit).
MapRace(g) ==
    /\ \/ threads[g].pc \in {"lookup", "insert"} /\ hmap.writing
       \/ threads[g].pc = "assigned" /\ ~hmap.writing
    /\ threads' = [threads EXCEPT ![g] = Down(g, "fatal")]
    /\ UNCHANGED <<states, disk, hmap, clock>>
    /\ ConcFrame

\* The process ends after a goroutine brought it down: the goroutine g stops
\* where it is and its call does not return.
Exit(g) ==
    /\ \E h \in Goroutines : threads[h].pc = "aborted"
    /\ threads[g].pc \in Running
    /\ threads' = [threads EXCEPT ![g] = [@ EXCEPT !.pc = "killed"]]
    /\ UNCHANGED <<states, disk, hmap, clock>>
    /\ ConcFrame

\* getMetricState line 360: if now().Sub(state.lastWritten) >= time.Minute.
\* With the nil state of a key whose pointer is not stored yet, the read of
\* state.lastWritten is a nil pointer dereference and the goroutine panics.
Flush(g) ==
    /\ threads[g].pc = "flush"
    /\ threads' = [threads EXCEPT ![g] =
                     IF threads[g].ms = "nil"
                     THEN Down(g, "panic")
                     ELSE IF Since(clock, Obj(g).lastWritten) >= Minute
                     THEN [@ EXCEPT !.pc = "marshal"]
                     ELSE [@ EXCEPT !.pc = "compare"]]
    /\ UNCHANGED <<states, disk, hmap, clock>>
    /\ ConcFrame

\* writeMetricState line 333, yaml.Marshal(state.dynamic): the struct is copied
\* field by field, the two fields enforceMonotonicy changes in either order.
MarshalState(g) ==
    /\ threads[g].pc = "marshal"
    /\ IF threads[g].part = ""
       THEN \E f \in RacingFields :
               threads' = [threads EXCEPT ![g] =
                             [@ EXCEPT !.part = f, !.data = Obj(g).dynamic]]
       ELSE \E f \in RacingFields \ {threads[g].part} :
               threads' = [threads EXCEPT ![g] =
                             [@ EXCEPT !.part = "", !.pc = "open",
                                       !.data = [@ EXCEPT ![f] = Obj(g).dynamic[f]]]]
    /\ UNCHANGED <<states, disk, hmap, clock>>
    /\ ConcFrame

\* writeMetricState lines 337-340: os.OpenFile with O_WRONLY|O_CREATE|O_TRUNC
\* leaves the file empty; its error is returned by getMetricState (line 365)
\* and by enforceMonotonicy (lines 372-374).
OpenFile(g) ==
    /\ threads[g].pc = "open"
    /\ IF stateDir # "unwritable" /\ disk[MetricID].kind \in Writable
       THEN /\ disk' = [disk EXCEPT ![MetricID] = Empty]
            /\ threads' = [threads EXCEPT ![g] = [@ EXCEPT !.pc = "write"]]
       ELSE /\ disk' = disk
            /\ threads' = [threads EXCEPT ![g] = Failed373(g, "write")]
    /\ UNCHANGED <<states, hmap, clock>>
    /\ ConcFrame

\* writeMetricState lines 342-345: f.Write(out). When it fails the file stays
\* as it is, line 362 is not reached and the error is returned (lines 343, 365
\* and 372-374).
WriteFile(g) ==
    /\ threads[g].pc = "write"
    /\ IF stateDir = "full"
       THEN /\ disk' = disk
            /\ threads' = [threads EXCEPT ![g] = Failed373(g, "write")]
       ELSE /\ disk' = [disk EXCEPT ![MetricID] =
                          Overlay(Record(Marshal(threads[g].data)), @)]
            /\ threads' = [threads EXCEPT ![g] = [@ EXCEPT !.pc = "written"]]
    /\ UNCHANGED <<states, hmap, clock>>
    /\ ConcFrame

\* getMetricState line 362: state.lastWritten = now()
SetLastWritten(g) ==
    /\ threads[g].pc = "written"
    /\ Assign(g, [Obj(g) EXCEPT !.lastWritten = clock],
              [threads[g] EXCEPT !.pc = "compare"])
    /\ UNCHANGED <<disk, hmap, clock>>
    /\ ConcFrame

\* enforceMonotonicy line 376: if value < ms.dynamic.LastRawValue
Compare(g) ==
    /\ threads[g].pc = "compare"
    /\ threads' = [threads EXCEPT ![g] =
                     IF threads[g].value < Obj(g).dynamic.LastRawValue
                     THEN [@ EXCEPT !.pc = "load"]
                     ELSE [@ EXCEPT !.pc = "store"]]
    /\ UNCHANGED <<states, disk, hmap, clock>>
    /\ ConcFrame

\* What goroutine g holds after reading the field f of its state as an operand
\* of line 377.
Operand(g, f) ==
    IF f = "Offset" THEN [threads[g] EXCEPT !.off = Obj(g).dynamic.Offset]
    ELSE [threads[g] EXCEPT !.lrv = Obj(g).dynamic.LastRawValue]

\* enforceMonotonicy line 377, ms.dynamic.Offset += ms.dynamic.LastRawValue:
\* the two operands are read one after the other, in either order.
Load(g) ==
    /\ threads[g].pc = "load"
    /\ IF threads[g].part = ""
       THEN \E f \in RacingFields :
               threads' = [threads EXCEPT ![g] = [Operand(g, f) EXCEPT !.part = f]]
       ELSE \E f \in RacingFields \ {threads[g].part} :
               threads' = [threads EXCEPT ![g] =
                             [Operand(g, f) EXCEPT !.part = "", !.pc = "add"]]
    /\ UNCHANGED <<states, disk, hmap, clock>>
    /\ ConcFrame

\* enforceMonotonicy line 377: the sum is stored in ms.dynamic.Offset
Add(g) ==
    /\ threads[g].pc = "add"
    /\ Assign(g, [Obj(g) EXCEPT !.dynamic.Offset = threads[g].off + threads[g].lrv],
              [threads[g] EXCEPT !.pc = "mark"])
    /\ UNCHANGED <<disk, hmap, clock>>
    /\ ConcFrame

\* enforceMonotonicy line 379: ms.lastWritten = time.Time{}
Mark(g) ==
    /\ threads[g].pc = "mark"
    /\ Assign(g, [Obj(g) EXCEPT !.lastWritten = ZeroTime],
              [threads[g] EXCEPT !.pc = "store"])
    /\ UNCHANGED <<disk, hmap, clock>>
    /\ ConcFrame

\* enforceMonotonicy line 382: ms.dynamic.LastRawValue = value
Store(g) ==
    /\ threads[g].pc = "store"
    /\ Assign(g, [Obj(g) EXCEPT !.dynamic.LastRawValue = threads[g].value],
              [threads[g] EXCEPT !.pc = "return"])
    /\ UNCHANGED <<disk, hmap, clock>>
    /\ ConcFrame

\* enforceMonotonicy line 383: return value + ms.dynamic.Offset, nil
Return(g) ==
    /\ threads[g].pc = "return"
    /\ threads' = [threads EXCEPT ![g] =
                     [@ EXCEPT !.pc = "done",
                               !.out = threads[g].value + Obj(g).dynamic.Offset]]
    /\ UNCHANGED <<states, disk, hmap, clock>>
    /\ ConcFrame

NextConc ==
    \/ ConcTick
    \/ \E g \in Goroutines :
        \/ Lookup(g) \/ Find(g) \/ Open(g) \/ Stat(g) \/ Read(g)
        \/ Insert(g) \/ MapAssign(g) \/ Assigned(g) \/ Clear(g) \/ Inserted(g)
        \/ MapRace(g) \/ Exit(g)
        \/ Flush(g) \/ MarshalState(g) \/ OpenFile(g) \/ WriteFile(g)
        \/ SetLastWritten(g)
        \/ Compare(g) \/ Load(g) \/ Add(g) \/ Mark(g) \/ Store(g) \/ Return(g)
SpecConc == InitConc /\ [][NextConc]_vars

\* ---------------------------------------------------- configuration runs
\* The program loads its configuration, builds the parser from it and then
\* looks up the rules of the metrics of the inbound messages.
ParserVars == <<states, disk, clock, stateDir, cfg, inputs, calls, ret, lastOut,
                lastEval, before, hist, trace, concVars>>

InitConfig ==
    /\ configFile \in ConfigFiles
    /\ loaded = NotLoaded
    /\ metricConfigs = NoParser
    /\ found = NotFound
    /\ threads = NoThreads
    /\ started = NotStarted
    /\ hmap = NoMap
    /\ states = [id \in IDs |-> NotCached]
    /\ disk = [id \in IDs |-> Absent]
    /\ clock = 1
    /\ stateDir = "writable"
    /\ cfg = MonotonicRule
    /\ inputs = {}
    /\ calls = 0
    /\ ret = NoRet
    /\ lastOut = NoOut
    /\ lastEval = NoEval
    /\ before = ZeroDynamic
    /\ hist = NoHistory
    /\ trace = <<>>

\* config.LoadConfig on the configuration file: the metrics of the document,
\* with any of the other sections.
DoLoadConfig ==
    /\ ~loaded.done
    /\ \E r \in {LoadConfig(configFile, file, canMkdir) :
                   file \in {f \in Sections : f.stop <= Len(configFile)},
                   canMkdir \in BOOLEAN} :
          loaded' = [done |-> TRUE, ok |-> r.ok, cfg |-> r.cfg, err |-> r.err]
    /\ UNCHANGED <<configFile, metricConfigs, found, ParserVars>>

\* metrics.NewParser on the metrics of the loaded configuration.
DoNewParser ==
    /\ loaded.done /\ loaded.ok
    /\ ~metricConfigs.built
    /\ metricConfigs' = [built |-> TRUE, cfgs |-> NewParser(loaded.cfg.Metrics)]
    /\ UNCHANGED <<configFile, loaded, found, ParserVars>>

\* Parser.findMetricConfigs(metric, deviceID).
FindMetricConfigs ==
    /\ metricConfigs.built
    /\ \E metric \in MQTTNames : \E deviceID \in DeviceIDs :
          found' = [called |-> TRUE, metric |-> metric, deviceID |-> deviceID,
                    configs |-> findMetricConfigs(loaded.cfg.Metrics,
                                                  metricConfigs.cfgs[metric],
                                                  deviceID)]
    /\ UNCHANGED <<configFile, loaded, metricConfigs, ParserVars>>

NextConfig == DoLoadConfig \/ DoNewParser \/ FindMetricConfigs
SpecConfig == InitConfig /\ [][NextConfig]_vars

\* ----------------------------------------------------------------- claims
\* The errors of readMetricState, which end getMetricState without a state.
ReadErrors == {"read", "parse", "panic"}

\* The offset the claim C1 gives for step i of the inputs ins: the sum of the
\* previous input at every step j <= i whose input is below the previous one
\* (the stored lastRawValue is 0 before the first step).
RECURSIVE ExpectedOffset(_, _)
ExpectedOffset(ins, i) ==
    IF i = 0 THEN 0
    ELSE LET prev == IF i = 1 THEN 0 ELSE ins[i - 1] IN
         ExpectedOffset(ins, i - 1) + (IF ins[i] < prev THEN prev ELSE 0)

TraceIns == [i \in 1..Len(trace) |-> trace[i].in]
TraceOuts == [i \in 1..Len(trace) |-> trace[i].out]

\* C1: from a zero-valued state, the i-th value enforceMonotonicy returns is
\* v_i plus the sum of the previous inputs at the resets up to step i, and the
\* stored lastRawValue after step i is v_i; the inputs 10, 20, 15, 25 give
\* 10, 20, 35, 45.
C1_OutputsAreInputPlusOffset ==
    /\ \A i \in 1..Len(trace) :
          trace[i].out = trace[i].in + ExpectedOffset(TraceIns, i)
    /\ Len(trace) > 0 =>
          /\ states[MetricID].cached
          /\ states[MetricID].st.dynamic.LastRawValue = trace[Len(trace)].in
          /\ states[MetricID].st.dynamic.Offset =
                ExpectedOffset(TraceIns, Len(trace))
    /\ TraceIns = <<10, 20, 15, 25>> => TraceOuts = <<10, 20, 35, 45>>

\* C1 witness: the four inputs of the example were fed and answered.
C1_Witness ==
    /\ TraceIns = <<10, 20, 15, 25>>
    /\ TraceOuts = <<10, 20, 35, 45>>

\* C2 (as claimed): every value enforceMonotonicy returns is at least the value
\* it returned before in the same process, whatever the sign of the inputs.
C2_NeverDecreases ==
    (ret.called /\ ret.mono.called /\ ret.mono.err = "" /\ ret.prevOut.set)
        => ret.mono.out >= ret.prevOut.v

\* C3 (as claimed): every run of a value expression sees raw_value bound to the
\* raw input of this call and value bound to the working value of this call.
C3_EnvironmentIsCurrent ==
    (ret.called /\ ret.expr.ran)
        => /\ ret.expr.env.raw_value = ret.raw
           /\ ret.expr.env.value = ret.expr.in

\* C4 (as claimed): a run of a value expression that follows a successful one
\* sees last_value, last_raw_value and last_result bound to the value, the raw
\* value and the result of that one and elapsed to the time since it; a first
\* run without prior state sees elapsed = 0.
C4_EnvironmentHasPrevious ==
    (ret.called /\ ret.expr.ran)
        => IF ret.prevEval.set
           THEN /\ ret.expr.env.last_value = ret.prevEval.value
                /\ ret.expr.env.last_raw_value = ret.prevEval.raw
                /\ ret.expr.env.last_result = F(ret.prevEval.result)
                /\ ret.expr.env.elapsed = ret.now - ret.prevEval.time
           ELSE (~ret.wasCached /\ ret.file.kind = "absent")
                    => ret.expr.env.elapsed = 0

\* C5: the first enforceMonotonicy call of a process that finds a state file
\* with offset O and lastRawValue L returns v + O when v >= L and v + O + L
\* when v < L; without an expression on the rule that call cannot fail.
C5_ContinuesFromPersistedOffset ==
    (ret.called /\ ~ret.wasCached /\ ret.file.kind = "record" /\ ret.mono.called)
        => LET O == ret.file.dynamic.Offset
               L == ret.file.dynamic.LastRawValue
               v == ret.mono.in
           IN /\ ret.mono.err = "" =>
                    ret.mono.out = (IF v >= L THEN v + O ELSE v + O + L)
              /\ (cfg.Expression = "" /\ cfg.RawExpression = "")
                    => ret.mono.err = ""

\* C5 witness: a fresh process found offset 3 and lastRawValue 2 on disk, was
\* given a value below 2 and returned it with both added.
C5_Witness ==
    /\ ret.called /\ ~ret.wasCached /\ ret.file.kind = "record"
    /\ ret.file.dynamic.Offset > 0
    /\ ret.mono.called /\ ret.mono.err = ""
    /\ ret.mono.in < ret.file.dynamic.LastRawValue
    /\ ret.mono.out = ret.mono.in + ret.file.dynamic.Offset
                          + ret.file.dynamic.LastRawValue

\* C6 (as claimed): the state file holds the in-memory state or the in-memory
\* state before its most recent change.  The code breaks it: only a reset
\* marks the state as never written (line 379), every other update of
\* LastRawValue waits for the flush interval.
C6_AtMostOneUpdateBehind ==
    (states[MetricID].cached /\ disk[MetricID].kind = "record")
        => disk[MetricID].dynamic \in
              {Marshal(states[MetricID].st.dynamic), Marshal(before)}

\* The offset that a process starting from the files D loads for the rule.
FileOffset(D) == readMetricState(D, MetricID, ZeroTime).state.dynamic.Offset

\* The offset of the rule's state before its most recent change, at the crash
\* that ret records: the offset the crashed call found when it had changed the
\* state itself, else the one before the last change of the calls before it.
OffsetBeforeCrash ==
    LET held == IF ret.preS[MetricID].cached
                 THEN ret.preS[MetricID].st.dynamic.Offset
                 ELSE FileOffset(ret.preD)
    IN IF ret.err \in {"added", "stored"} THEN held ELSE before.Offset

\* What the code does keep of C6: the state file may be any number of updates
\* behind, but its offset is the in-memory offset or the offset before the most
\* recent change, and a cached state without a file has never been changed;
\* this holds between the calls and at every point of a call at which the
\* process can crash, unless the file is empty: a write truncates the file
\* before it writes the record, and a crash or a failure of the write between
\* the two leaves the file empty.
C6_OffsetAtMostOneResetBehind ==
    /\ states[MetricID].cached =>
          \/ disk[MetricID] = Empty
          \/ /\ FileOffset(disk) \in {states[MetricID].st.dynamic.Offset,
                                      before.Offset}
             /\ disk[MetricID].kind = "absent"
                   => states[MetricID].st.dynamic = ZeroDynamic
    /\ (ret.outcome = "crashed" /\ ret.valueS[MetricID].cached) =>
          \/ disk[MetricID] = Empty
          \/ /\ FileOffset(disk) \in {ret.valueS[MetricID].st.dynamic.Offset,
                                      OffsetBeforeCrash}
             /\ disk[MetricID].kind = "absent"
                   => ret.valueS[MetricID].st.dynamic = ZeroDynamic

\* C6: the process crashed between the truncation and the write of the state
\* file with an offset in memory, and left an empty file.
C6_WitnessTruncated ==
    /\ ret.outcome = "crashed" /\ ret.err = "truncated"
    /\ ret.valueS[MetricID].st.dynamic.Offset > 0
    /\ disk[MetricID] = Empty

\* C6: the process crashed after changing the offset, with the file one change
\* of the offset behind.
C6_WitnessCrashAfterReset ==
    /\ ret.outcome = "crashed" /\ ret.err \in {"added", "stored"}
    /\ disk[MetricID].kind = "record"
    /\ FileOffset(disk) # ret.valueS[MetricID].st.dynamic.Offset

\* C6: a reset is in memory and not yet on disk, and the file is more than one
\* update behind.
C6_Witness ==
    /\ states[MetricID].cached /\ disk[MetricID].kind = "record"
    /\ disk[MetricID].dynamic.Offset # states[MetricID].st.dynamic.Offset
    /\ disk[MetricID].dynamic.Offset = before.Offset
    /\ disk[MetricID].dynamic.LastRawValue # before.LastRawValue

\* C7 (as claimed): a call in which writing the state file failed returns the
\* metric it would have returned had the write succeeded, and no error.
C7_WriteFailureIsHarmless ==
    (ret.called /\ (ret.expr.err = "write" \/ ret.mono.err = "write"
                    \/ ret.err = "write"))
        => (ret.outcome = "ok" /\ ret.metric = ret.writable)

\* C8 (as claimed): a state file that cannot be opened, read or parsed counts
\* as no prior state: the access caches a state and the call does not fail on it.
C8_BadFileIsNoPriorState ==
    (ret.called /\ (ret.expr.called \/ ret.mono.called) /\ ~ret.wasCached
       /\ ret.file.kind \in {"unopenable", "unreadable", "corrupt"})
        => /\ states[MetricID].cached
           /\ ret.outcome # "panic"
           /\ ret.expr.err \notin ReadErrors
           /\ ret.mono.err \notin ReadErrors

\* C9 (as claimed): with errorValue configured parseMetric returns a metric and
\* no error, whichever step failed, and a failed value step leaves errorValue as
\* the working value that scale is applied to (state files that cannot be read
\* and writes that fail are left aside here: they are C8 and C7).
C9_ErrorValueSwallowsEveryFailure ==
    (ret.called /\ cfg.ErrorValue.set /\ ret.file.kind \in {"absent", "record"}
       /\ "write" \notin {ret.err, ret.expr.err, ret.mono.err})
        => /\ ret.outcome = "ok"
           /\ (ret.expr.err # "" /\ ~ret.mono.called)
                 => ret.metric.Value = scaleStep(cfg, cfg.ErrorValue.v)

\* C10 (as claimed): a compile failure of the value expression is returned as
\* an error by parseMetric, with or without errorValue.
C10_CompileFailureIsSurfaced ==
    (ret.called /\ ret.expr.called /\ ret.expr.err = "compile")
        => ret.outcome = "err"

\* The offset and lastRawValue in the cache after enforceMonotonicy was called
\* with the value of goroutine g and then with that of goroutine h, one call
\* after the other, from the cache and the files the goroutines started with.
OneAfterTheOther(g, h) ==
    LET first == enforceMonotonicy(started.S, started.D, MetricID,
                                   threads[g].value, clock, stateDir)
        second == enforceMonotonicy(first.S, first.D, MetricID,
                                    threads[h].value, clock, stateDir)
    IN [Offset |-> second.S[MetricID].st.dynamic.Offset,
        LastRawValue |-> second.S[MetricID].st.dynamic.LastRawValue]

\* C11 (as claimed): when two concurrent invocations for one metric identity
\* have both returned, the offset and lastRawValue in the cache are those that
\* one of the two sequential orders of the invocations leaves.
C11_OutcomeOfSomeSequentialOrder ==
    (\A g \in DOMAIN threads : threads[g].pc = "done" /\ threads[g].err = "")
      /\ threads # NoThreads /\ stateDir = "writable"
        => \E g, h \in Goroutines :
              /\ g # h
              /\ states[MetricID].cached
              /\ [Offset |-> states[MetricID].st.dynamic.Offset,
                  LastRawValue |-> states[MetricID].st.dynamic.LastRawValue]
                    = OneAfterTheOther(g, h)

\* The rules of the blocks from block b on, in configured order, as pointers.
RECURSIVE RulesFrom(_, _)
RulesFrom(blocks, b) ==
    IF b > Len(blocks) THEN <<>>
    ELSE [i \in 1..Len(blocks[b].Metrics) |-> <<b, i>>] \o RulesFrom(blocks, b + 1)

\* The rule of the loaded configuration that c points to.
RuleAt(c) == loaded.cfg.Metrics[c[1]].Metrics[c[2]]

\* C12: findMetricConfigs(metric, deviceID) returns the rules whose MQTTName is
\* metric and whose SensorNameFilter is unset or matches deviceID, all of them,
\* in configured order (blocks in order, rules of a block in order), and the
\* empty list when there is none.
C12_AllMatchingRulesInOrder ==
    found.called =>
        found.configs =
            SelectSeq(RulesFrom(loaded.cfg.Metrics, 1),
                      LAMBDA c :
                         /\ RuleAt(c).MQTTName = found.metric
                         /\ RuleAt(c).SensorNameFilter.set
                               => MatchString(RuleAt(c).SensorNameFilter,
                                              found.deviceID))

\* C12 witness: a lookup returned two rules, one of them with a filter, while
\* the configuration holds no further rule; and another lookup shape is the
\* empty result.
C12_Witness ==
    /\ found.called
    /\ Len(found.configs) = 2
    /\ \E k \in 1..2 : RuleAt(found.configs[k]).SensorNameFilter.set
    /\ found.configs[1] # found.configs[2]

\* The value the merge is claimed to give field f of a rule, given the test
\* has(frag, f) for "the fragment sets f": the rule's own value, else the shared
\* value, else the default. (After the merge LoadConfig replaces an MQTTName that
\* is still empty by the PrometheusName; PrometheusName is never inherited in
\* the documents of the model.)
MergedValue(b, i, f, has(_, _)) ==
    LET own == configFile[b].metrics[i]
        shared == configFile[b].shared
        v == IF has(own, f) THEN own[f]
             ELSE IF has(shared, f) THEN shared[f]
             ELSE MetricConfigDefaults[f]
    IN IF f = "MQTTName" /\ v = "" THEN own["PrometheusName"] ELSE v

\* A fragment sets f when the document writes the key.
Written(frag, f) == f \in DOMAIN frag
\* A fragment sets f when it holds a non-zero value for it.
NonZero(frag, f) == f \in DOMAIN frag /\ frag[f] # Zero(f)

\* C13 (as claimed): every field of every rule resolves to the value the rule
\* writes, also when it writes false, 0 or the empty string, else to the value
\* the shared fragment writes, else to the default.
C13_WrittenFieldWins ==
    (loaded.done /\ loaded.ok) =>
        \A b \in DOMAIN configFile : \A i \in DOMAIN configFile[b].metrics :
        \A f \in Fields :
            loaded.cfg.Metrics[b].Metrics[i][f] = MergedValue(b, i, f, Written)

\* C13 (amended): every field of every rule resolves to the rule's own value
\* when that value is not the zero value of the field's type, else to the shared
\* fragment's value when that is not zero, else to the default.
C13_NonZeroFieldWins ==
    (loaded.done /\ loaded.ok) =>
        \A b \in DOMAIN configFile : \A i \in DOMAIN configFile[b].metrics :
        \A f \in Fields :
            loaded.cfg.Metrics[b].Metrics[i][f] = MergedValue(b, i, f, NonZero)

\* C13 witness: a loaded rule that writes omit_timestamp: false and a scale of 0
\* under a shared fragment with omit_timestamp: true and scale 3 has taken the
\* shared values, and has kept the error_value 0 it writes.
C13_Witness ==
    /\ loaded.done /\ loaded.ok
    /\ \E b \in DOMAIN configFile : \E i \in DOMAIN configFile[b].metrics :
          LET own == configFile[b].metrics[i]
              shared == configFile[b].shared
              rule == loaded.cfg.Metrics[b].Metrics[i]
          IN /\ Written(own, "OmitTimestamp") /\ ~own["OmitTimestamp"]
             /\ NonZero(shared, "OmitTimestamp")
             /\ rule.OmitTimestamp
             /\ rule.MQTTValueScale = 3
             /\ NonZero(shared, "ErrorValue")
             /\ rule.ErrorValue = SomeFloat(0)

\* A rule of the document has both expression and raw_expression once it has
\* taken over what its shared fragment gives it.
ConflictAfterMerge ==
    \E b \in DOMAIN configFile : \E i \in DOMAIN configFile[b].metrics :
        /\ MergedValue(b, i, "Expression", NonZero) # ""
        /\ MergedValue(b, i, "RawExpression", NonZero) # ""

\* C14 (as claimed): a document with a rule that has both expression and
\* raw_expression after the merge is rejected with an error and the empty
\* Config, so no rule of a loaded configuration has both.
C14_ConflictRejectedAtLoad ==
    loaded.done =>
        /\ ConflictAfterMerge => (~loaded.ok /\ loaded.err # ""
                                    /\ loaded.cfg = EmptyConfig)
        /\ loaded.ok =>
              \A b \in DOMAIN loaded.cfg.Metrics :
              \A i \in DOMAIN loaded.cfg.Metrics[b].Metrics :
                  ~(/\ loaded.cfg.Metrics[b].Metrics[i].Expression # ""
                    /\ loaded.cfg.Metrics[b].Metrics[i].RawExpression # "")

\* C14: a document was rejected for a rule that writes only one of the two
\* and inherits the other from its shared fragment.
C14_RejectedAfterMerge ==
    /\ loaded.done /\ ~loaded.ok
    /\ loaded.err = "mutually exclusive"
    /\ loaded.cfg = EmptyConfig
    /\ \A b \in DOMAIN configFile : \A i \in DOMAIN configFile[b].metrics :
          ~(/\ NonZero(configFile[b].metrics[i], "Expression")
            /\ NonZero(configFile[b].metrics[i], "RawExpression"))

\* C14: a document with such a rule and a key that the structs do not have
\* came back with the decoding error and its rules.
C14_RulesReturnedWithError ==
    /\ loaded.done /\ ~loaded.ok /\ loaded.err = "yaml"
    /\ ConflictAfterMerge
    /\ loaded.cfg.Metrics # <<>>

\* ------------------------------------------------------------------ C15
\* What the type resolution is to yield for the input raw under the rule c:
\* fails says that it is to fail, n is the value otherwise.
Resolved(c, raw) ==
    LET yields(n) == [fails |-> FALSE, n |-> n]
        fallback == IF c.ErrorValue.set THEN yields(c.ErrorValue.v)
                    ELSE [fails |-> TRUE, n |-> 0]
        m == c.StringValueMapping
    IN
    CASE raw.t = "bool" -> yields(IF raw = B(TRUE) THEN 1 ELSE 0)
      [] raw.t = "string" /\ m.set ->
            IF \E e \in m.Map : e.k = raw.s
            THEN yields((CHOOSE e \in m.Map : e.k = raw.s).v)
            ELSE IF m.ErrorValue.set /\ ~c.ErrorValue.set
            THEN yields(m.ErrorValue.v)
            ELSE fallback
      [] raw.t = "string" /\ ~m.set ->
            IF ParseFloat(raw.s).ok THEN yields(ParseFloat(raw.s).n) ELSE fallback
      [] raw.t \in {"int", "float"} -> yields(raw.n)
      [] OTHER -> fallback

\* C15: without a raw expression the type resolution of parseMetric yields 1
\* and 0 for true and false, the map's entry for a text when a map is
\* configured (failing, or yielding the error value, when there is no entry),
\* the parsed float for a text without a map, every numeric input (integer or
\* float) unchanged, and fails on any other type unless the error value is
\* set; a rule with no expression, no monotonicity and no scale returns a
\* numeric input unchanged.
C15_TypeResolution ==
    (ret.called /\ cfg.RawExpression = "") =>
        LET want == Resolved(cfg, ret.raw) IN
        /\ want.fails => ret.outcome = "err" /\ ret.err = "type"
        /\ ~want.fails => ret.err # "type" /\ ret.typed = want.n
        /\ (/\ ret.raw.t \in {"int", "float"}
            /\ cfg.Expression = "" /\ ~cfg.ForceMonotonicy
            /\ cfg.MQTTValueScale = 0)
           => ret.outcome = "ok" /\ ret.metric.Value = ret.raw.n

\* C15 without the integers: the same for every input that is not an integer.
C15_TypeResolutionOfOthers ==
    ret.raw.t # "int" => C15_TypeResolution

\* C15: a rule that configures nothing was fed an integer.
C15_IntegerFed ==
    ret.called /\ cfg = PlainRule /\ ret.raw = I(3)

\* ------------------------------------------------------------------ C16
\* The label evaluations of the last call that succeeded.
Evaluated == {i \in DOMAIN ret.labels : ret.labels[i].ran /\ ret.labels[i].err = ""}

\* What the evaluation st of a label saw of the previous successful evaluation
\* of the same label in this process, beside last_raw_value.
SeesPrevious(st) ==
    LET prev == ret.prevLabel[st.k]
        lid == labelID(st.k, MetricID)
    IN  /\ prev.set =>
              /\ st.env.last_result = Str(prev.result)
              /\ st.env.last_value = prev.value
              /\ st.env.elapsed = ret.now - prev.time
        /\ (~prev.set /\ ~st.preS[lid].cached /\ st.preD[lid] = Absent) =>
              st.env.elapsed = 0

\* C16: on the second of two consecutive successful evaluations of a label
\* expression, last_result is the text the first returned, last_value the value
\* of the first, last_raw_value the raw_value of the first and elapsed the time
\* between the two (zero on the first evaluation when no state exists).
C16_LabelSeesPreviousEvaluation ==
    \A i \in Evaluated :
        /\ SeesPrevious(ret.labels[i])
        /\ ret.prevLabel[ret.labels[i].k].set =>
              ret.labels[i].env.last_raw_value = ret.prevLabel[ret.labels[i].k].raw

\* C16 without last_raw_value: last_result, last_value and elapsed are those of
\* the previous successful evaluation.
C16_LabelSeesAllButRawValue ==
    \A i \in Evaluated : SeesPrevious(ret.labels[i])

\* C16: a label was evaluated a second time, later than the first.
C16_SecondEvaluation ==
    \E i \in Evaluated :
        /\ ret.prevLabel[ret.labels[i].k].set
        /\ ret.now > ret.prevLabel[ret.labels[i].k].time

\* ------------------------------------------------------------------ C17
\* The access e comes less than a minute after the last write of its identity's
\* state file, and the state was not marked dirty since that write.
Throttled(e) ==
    e.prev.set /\ e.time - e.prev.time < Minute /\ ~e.prev.dirty

\* C17: a state file changes only by a write inside getMetricState (one that
\* succeeds, or one that fails after it truncated the file), and an access less
\* than a minute after the last write of the same identity, with the state not
\* marked dirty since (no reset detected, no program compiled), performs no
\* write.
C17_FlushThrottled ==
    ret.called =>
        /\ \A id \in IDs :
              disk[id] # ret.preD[id] =>
                 \E i \in DOMAIN ret.accesses :
                    ret.accesses[i].id = id /\ ret.accesses[i].tried
        /\ \A i \in DOMAIN ret.accesses :
              Throttled(ret.accesses[i]) =>
                 ~ret.accesses[i].tried /\ ~ret.accesses[i].wrote

\* C17: an access within the minute after a write of a clean state wrote
\* nothing, and an access a minute or more after a write wrote again.
C17_Witness ==
    \E i \in DOMAIN ret.accesses :
        Throttled(ret.accesses[i]) /\ ~ret.accesses[i].tried

C17_WitnessSecondWrite ==
    \E i \in DOMAIN ret.accesses :
        LET e == ret.accesses[i] IN
        e.prev.set /\ ~e.prev.dirty /\ e.time - e.prev.time >= Minute /\ e.wrote

\* ------------------------------------------------------------------ C18
\* C18: after enforceMonotonicy detected a reset and changed the offset, every
\* access to the rule's state up to the first successful write attempts a
\* write, whatever time has elapsed, and the record written holds the updated
\* offset.
C18_DirtyFlush ==
    \A i \in DOMAIN ret.accesses :
        LET e == ret.accesses[i] IN
        e.pending.set =>
           /\ e.tried
           /\ e.wrote => /\ e.file.kind = "record"
                         /\ e.file.dynamic.Offset = e.pending.offset

\* C18: the access after a reset wrote the new offset less than a minute after
\* the last write.
C18_Witness ==
    \E i \in DOMAIN ret.accesses :
        LET e == ret.accesses[i] IN
        /\ e.pending.set /\ e.wrote
        /\ e.prev.set /\ e.time - e.prev.time < Minute
        /\ e.pending.offset > 0

\* C18: the write after a reset failed, and the following access tried again.
C18_WitnessRetry ==
    /\ hist.pending.set
    /\ \E i \in DOMAIN ret.accesses :
          LET e == ret.accesses[i] IN
          e.id = MetricID /\ e.pending.set /\ e.tried /\ ~e.wrote

\* ------------------------------------------------------------------ C19
\* The outputs i and k of the trace lie on the two sides of a crash.
AcrossCrash(i, k) ==
    /\ i < k /\ ~trace[i].crash /\ ~trace[k].crash
    /\ \E j \in (i + 1)..(k - 1) : trace[j].crash

\* C19 as stated: whatever state file the process restarts from (stale or
\* absent), every output after the restart is at least the last output before
\* the crash (hence at least every output before it).
C19_MonotonicAcrossCrash ==
    \A i, k \in DOMAIN trace :
        AcrossCrash(i, k) => trace[i].out <= trace[k].out

\* C19 amended: when the state file held the offset and lastRawValue of the
\* process at each crash, every output after a restart is at least every
\* output before the crash.
C19_MonotonicAcrossCrashWithCurrentFile ==
    \A i, k \in DOMAIN trace :
        (/\ AcrossCrash(i, k)
         /\ \A j \in i..k : trace[j].crash => trace[j].current)
        => trace[i].out <= trace[k].out

\* C19: the process crashed with a current state file after an output and then
\* returned an output for a smaller value.
C19_Witness ==
    \E i, k \in DOMAIN trace :
        /\ AcrossCrash(i, k)
        /\ \A j \in i..k : trace[j].crash => trace[j].current
        /\ trace[k].in < trace[i].in
        /\ trace[k].out > trace[k].in

\* ------------------------------------------------------------------ C20
\* The state in the cache and the state file of the identity id are the same in
\* (S1, D1) and (S2, D2).
Untouched(id, S1, D1, S2, D2) == S1[id] = S2[id] /\ D1[id] = D2[id]

\* C20: the evaluation of a dynamic label leaves the rule's own state and file
\* and those of every other label of the rule unchanged, and the value
\* expression and the monotonic correction leave every label's state and file
\* unchanged.
C20_LabelStateIndependent ==
    ret.called =>
        /\ \A i \in DOMAIN ret.labels :
              LET st == ret.labels[i] IN
              /\ Untouched(MetricID, st.preS, st.preD, st.postS, st.postD)
              /\ \A k \in LabelNames \ {st.k} :
                    Untouched(labelID(k, MetricID), st.preS, st.preD,
                              st.postS, st.postD)
        /\ \A k \in LabelNames :
              Untouched(labelID(k, MetricID), ret.preS, ret.preD,
                        ret.valueS, ret.valueD)

\* C20: in one call the monotonic correction changed the rule's state and both
\* labels were evaluated, each changing its own state.
C20_Witness ==
    /\ ret.called /\ Len(ret.labels) = 2
    /\ ret.valueS[MetricID] # ret.preS[MetricID]
    /\ \A i \in DOMAIN ret.labels :
          LET st == ret.labels[i]
              lid == labelID(st.k, MetricID)
          IN  st.err = "" /\ st.preS[lid].cached /\ st.postS[lid] # st.preS[lid]

\* ------------------------------------------------------------------ C21
\* The working value of the last call before the monotonicity step: the result
\* of the expression (the error value when it failed), else the typed value.
Working ==
    IF ~ret.expr.called THEN ret.typed
    ELSE IF ret.expr.err = "" THEN ret.expr.out
    ELSE cfg.ErrorValue.v

\* C21: enforceMonotonicy is given the unscaled working value, the stored
\* lastRawValue and offset are unscaled, and the returned value is
\* (working value + offset) * scale for a nonzero scale; a scale of 0 leaves
\* the value unmultiplied.
C21_ScaleAfterMonotonicity ==
    (ret.called /\ ret.outcome = "ok") =>
        LET dyn == states[MetricID].st.dynamic
            s == cfg.MQTTValueScale
        IN
        /\ (ret.mono.called /\ ret.mono.err = "") =>
              /\ ret.mono.in = Working
              /\ dyn.LastRawValue = Working
              /\ ret.mono.out = Working + dyn.Offset
              /\ ret.metric.Value = IF s # 0 THEN (Working + dyn.Offset) * s
                                    ELSE Working + dyn.Offset
        /\ (~ret.mono.called /\ s = 0) => ret.metric.Value = Working

\* C21: a rule with force_monotonicy and scale 2 returned (value + offset) * 2
\* with a positive offset.
C21_Witness ==
    /\ ret.called /\ ret.outcome = "ok"
    /\ ret.mono.called /\ ret.mono.err = ""
    /\ cfg.MQTTValueScale = 2
    /\ states[MetricID].st.dynamic.Offset > 0
    /\ ret.metric.Value = (ret.mono.in + states[MetricID].st.dynamic.Offset) * 2

\* ------------------------------------------------------------------ C22
\* The evaluation st of the expression of the identity id compiled it when it
\* was the first in this process and reused the cached program otherwise.
CompiledOnFirst(st, id, S1, S2) ==
    st.ran =>
       /\ st.compiled <=> ret.prevCompiles[id] = 0
       /\ S2[id].st.program # NoProgram
       /\ ~st.compiled => S1[id].cached /\ S2[id].st.program = S1[id].st.program

\* C22: an expression that compiles is compiled exactly once per identity (rule
\* or label of a rule) in a process, on the first evaluation, and every later
\* evaluation runs the program cached in the identity's state.
C22_CompiledOnce ==
    /\ \A id \in IDs : hist.compiles[id] <= 1
    /\ ret.called =>
          /\ CompiledOnFirst(ret.expr, MetricID, ret.preS, ret.valueS)
          /\ \A i \in DOMAIN ret.labels :
                LET st == ret.labels[i] IN
                CompiledOnFirst(st, labelID(st.k, MetricID), st.preS, st.postS)

\* C22: a value expression and a label expression were each evaluated again
\* without a compilation, after the one of the first evaluation.
C22_Witness ==
    /\ ret.called /\ ret.expr.ran /\ ~ret.expr.compiled
    /\ ret.prevCompiles[MetricID] = 1

C22_WitnessLabel ==
    \E i \in DOMAIN ret.labels :
        /\ ret.labels[i].ran /\ ~ret.labels[i].compiled
        /\ ret.prevCompiles[labelID(ret.labels[i].k, MetricID)] = 1

\* ------------------------------------------------------------------ C23
\* The durable fields of the rule's state, as the cache S and the files D hold
\* them: those of the cached state, else those of the state file.
Durable(S, D) ==
    LET dyn == IF S[MetricID].cached THEN S[MetricID].st.dynamic
               ELSE readMetricState(D, MetricID, ZeroTime).state.dynamic
    IN  <<dyn.Offset, dyn.LastRawValue, dyn.LastExprValue, dyn.LastExprRawValue,
          dyn.LastExprResult, dyn.LastExprTimestamp>>

\* parseMetric returned an error for a rule without error value.
Failed == ret.called /\ ret.outcome = "err" /\ ~cfg.ErrorValue.set

\* C23: when parseMetric returns an error for a rule without error value,
\* whichever step failed, the durable fields of the rule's state are the same as
\* before the call.
C23_StateUnchangedOnError ==
    Failed => Durable(states, disk) = Durable(ret.preS, ret.preD)

\* The offset and lastRawValue among the durable fields.
Monotonic(S, D) == <<Durable(S, D)[1], Durable(S, D)[2]>>

\* C23 amended: the step that fails changes no durable field, the steps
\* before it keep their updates. When the type resolution or the first step
\* that uses the state failed (the expression, or the monotonicity of a rule
\* without expression), the durable fields are the same as before the call;
\* when the monotonicity failed after the expression, offset and lastRawValue
\* are the same as before the call; when a dynamic label failed, the durable
\* fields are those the value steps left.
C23_FailingStepChangesNothing ==
    Failed =>
       /\ (ret.labels = <<>> /\ ~(ret.expr.called /\ ret.mono.called))
             => Durable(states, disk) = Durable(ret.preS, ret.preD)
       /\ (ret.labels = <<>> /\ ret.mono.called)
             => Monotonic(states, disk) = Monotonic(ret.preS, ret.preD)
       /\ ret.labels # <<>>
             => Durable(states, disk) = Durable(ret.valueS, ret.valueD)

\* C23: the expression failed at run time on a state that an earlier message
\* had changed.
C23_WitnessExpression ==
    /\ Failed /\ ret.expr.ran /\ ret.expr.err = "run"
    /\ ret.preS[MetricID].cached
    /\ ret.preS[MetricID].st.dynamic.LastExprTimestamp # ZeroTime

\* C23: the type resolution failed for a rule whose state an earlier message
\* had changed.
C23_WitnessType ==
    /\ Failed /\ ret.err = "type"
    /\ states[MetricID].cached /\ states[MetricID].st.dynamic.LastRawValue > 0

\* C23: the monotonicity step failed on a value below the stored lastRawValue.
C23_Witness ==
    /\ Failed /\ ret.mono.called /\ ret.mono.err = "write"
    /\ states[MetricID].cached
    /\ ret.mono.in < states[MetricID].st.dynamic.LastRawValue

\* C23: a dynamic label failed after the monotonicity step had detected a
\* reset.
C23_LabelFailedAfterReset ==
    /\ Failed /\ ret.labels # <<>>
    /\ ret.mono.called /\ ret.mono.err = "" /\ ret.mono.dirty

\* ------------------------------------------------------------------ C24
\* The configured dynamic label names of the rule.
LabelNamesOf(mc) == {e.k : e \in mc.DynamicLabels}

\* C24: every metric returned without error has a Labels mapping whose keys are
\* exactly the rule's dynamic label names, LabelsKeys is that set in ascending
\* order, and the description's variable labels are sensor, topic and then
\* LabelsKeys, whatever the input and the order of the evaluations.
C24_LabelsConsistent ==
    (ret.called /\ ret.outcome = "ok") =>
        LET names == LabelNamesOf(cfg)
            keys == ret.LabelsKeys
        IN
        /\ {e.k : e \in ret.metric.Labels} = names
        /\ Cardinality(ret.metric.Labels) = Cardinality(names)
        /\ Len(keys) = Cardinality(names)
        /\ {keys[i] : i \in DOMAIN keys} = names
        /\ \A i, j \in DOMAIN keys : i < j => Byte[keys[i]] < Byte[keys[j]]
        /\ ret.Description = <<"sensor", "topic">> \o keys

\* C24: a metric with two labels was returned after the label b was evaluated
\* before the label a.
C24_Witness ==
    /\ ret.called /\ ret.outcome = "ok"
    /\ Len(ret.labels) = 2 /\ ret.labels[1].k = "b"
    /\ ret.LabelsKeys = <<"a", "b">>

====
